---------------------------- MODULE Spec2Model ----------------------------
(***************************************************************************)
(* Model of skiadas/rngast: the Relax NG simplifier (simplifyRngAst and    *)
(* its eight passes, src/src/rngast-validate.ts 416-889), the simple-form  *)
(* checker (src/unnamed/part_001) and the validator (RelaxNgValidator,     *)
(* src/src/rngast-validate.ts 1-414).                                      *)
(*                                                                         *)
(* The simplifier mutates the AST in place and the traversal library       *)
(* (unist-util-visit) keeps walking the node objects it was handed, so the *)
(* AST is modelled as a heap of node objects addressed by identity: a      *)
(* node replaced in its parent is still an object, and still traversed.    *)
(***************************************************************************)
EXTENDS Integers, Sequences, FiniteSets, TLC

VARIABLES
  heap,     \* simplifier: the node objects, heap[id] = [type, name, combine, children]
  pc,       \* simplifier: number of statements of simplifyRngAst executed so far
  err,      \* simplifier: "none", or the message of the exception that ended the call
  input,    \* simplifier: the grammar simplifyRngAst was called with (a value tree)
  doc,      \* validator: the XML node objects of the document
  patterns, \* validator: the patterns the document is matched against
  ann,      \* validator: ann[id] = node.data.validation of XML node id
  job,      \* validator: the call made and its pattern argument
  phase,    \* validator: "ready" before the call, "done" after it
  result    \* validator: what the call returned, or the exception it ended in

vars == <<heap, pc, err, input, doc, patterns, ann, job, phase, result>>

-----------------------------------------------------------------------------
(* Bounds of the model *)

\* nesting depth of the generated patterns
MaxDepth == 2
\* number of nested grammars below the top grammar
MaxNested == 2
\* members of a generated group of start (or define) nodes
MaxMembers == 3
\* children of a generated XML element
MaxKids == 3

-----------------------------------------------------------------------------
(* AST nodes (src/unnamed/part_000) and arrays *)

NoCombine == "undefined"

Node(type, name, combine, children) ==
  [type |-> type, name |-> name, combine |-> combine, children |-> children]

\* the node kinds that own a children array
ParentTypes ==
  {"root", "grammar", "start", "define", "elementNamed", "element",
   "attributeNamed", "attribute", "group", "interleave", "choice",
   "optional", "zeroOrMore", "oneOrMore", "mixed", "nameChoice",
   "exceptNameClass"}

\* Array.prototype.indexOf, 0-based, -1 when absent
IndexOf(s, x) ==
  IF \E i \in 1..Len(s) : s[i] = x
    THEN (CHOOSE i \in 1..Len(s) : s[i] = x /\ \A j \in 1..(i - 1) : s[j] # x) - 1
    ELSE -1

\* Array.prototype.splice(start, deleteCount, ...items), 0-based start
Splice(s, start, del, items) ==
  LET n == Len(s)
      b == IF start < 0 THEN (IF n + start < 0 THEN 0 ELSE n + start)
           ELSE (IF start > n THEN n ELSE start)
      d == IF del < 0 THEN 0 ELSE IF del > n - b THEN n - b ELSE del
  IN  SubSeq(s, 1, b) \o items \o SubSeq(s, b + d + 1, n)

\* object allocation: the new object's identity
NewId(h) == Len(h) + 1
Alloc(h, node) == Append(h, node)

\* value trees: the same records with children holding trees instead of ids
RECURSIVE LoadNode(_, _), LoadList(_, _, _)
LoadList(h, ts, acc) ==
  IF ts = <<>> THEN [heap |-> h, ids |-> acc]
  ELSE LET r == LoadNode(h, Head(ts))
       IN  IF r.id = 0 THEN r ELSE LoadList(r.heap, Tail(ts), Append(acc, r.id))
LoadNode(h, t) ==
  LET id == NewId(h)
      h1 == Alloc(h, Node(t.type, t.name, t.combine, <<>>))
      r  == LoadList(h1, t.children, <<>>)
  IN  [heap |-> [r.heap EXCEPT ![id].children = r.ids], id |-> id]

\* the heap holding exactly tree t, its root at id 1
Load(t) == LoadNode(<<>>, t).heap
Root == 1

RECURSIVE ToTree(_, _), ToTrees(_, _)
ToTrees(h, ids) ==
  IF ids = <<>> THEN <<>> ELSE <<ToTree(h, Head(ids))>> \o ToTrees(h, Tail(ids))
ToTree(h, id) == Node(h[id].type, h[id].name, h[id].combine, ToTrees(h, h[id].children))

-----------------------------------------------------------------------------
(* Builder, on value trees (src/src/relaxng-builder.ts 3-102) *)

Leaf(type) == Node(type, "", NoCombine, <<>>)
empty == Leaf("empty")
text == Leaf("text")
notAllowed == Leaf("notAllowed")
name(n) == Node("name", n, NoCombine, <<>>)
ref(n) == Node("ref", n, NoCombine, <<>>)
parentRef(n) == Node("parentRef", n, NoCombine, <<>>)
elemNamed(n, children) ==
  Node("elementNamed", n, NoCombine, IF children = <<>> THEN <<empty>> ELSE children)
elem(nameClass, children) ==
  Node("element", "", NoCombine,
       <<nameClass>> \o (IF children = <<>> THEN <<empty>> ELSE children))
attrNamed(n, child) == Node("attributeNamed", n, NoCombine, <<child>>)
attr(nameClass, child) == Node("attribute", "", NoCombine, <<nameClass, child>>)
start(child) == Node("start", "", NoCombine, <<child>>)
startC(comb, child) == Node("start", "", comb, <<child>>)
define(n, children) == Node("define", n, NoCombine, children)
defineC(n, comb, children) == Node("define", n, comb, children)
grammar(s, defs) == Node("grammar", "", NoCombine, <<s>> \o defs)
choice(children) == Node("choice", "", NoCombine, children)
group(children) == Node("group", "", NoCombine, children)
interleave(children) == Node("interleave", "", NoCombine, children)
oneOrMore(children) == Node("oneOrMore", "", NoCombine, children)
zeroOrMore(children) == Node("zeroOrMore", "", NoCombine, children)
optional(children) == Node("optional", "", NoCombine, children)
mixed(children) == Node("mixed", "", NoCombine, children)
root(child) == Node("root", "", NoCombine, <<child>>)

\* the same constructors creating node objects on the heap: [heap, id]
New(h, node) == [heap |-> Alloc(h, node), id |-> NewId(h)]
\* r.elem(r.name(n), ...children): the name object is created first
NewElem(h, n, children) ==
  LET a == New(h, name(n))
      b == IF children = <<>> THEN New(a.heap, empty) ELSE [heap |-> a.heap, id |-> 0]
      cs == IF children = <<>> THEN <<b.id>> ELSE children
  IN  New(b.heap, Node("element", "", NoCombine, <<a.id>> \o cs))
\* r.attr(r.name(n), ...children): only the first spread argument is a parameter
NewAttr(h, n, children) ==
  LET a == New(h, name(n))
      b == IF children = <<>> THEN New(a.heap, text) ELSE [heap |-> a.heap, id |-> children[1]]
  IN  New(b.heap, Node("attribute", "", NoCombine, <<a.id, b.id>>))

-----------------------------------------------------------------------------
(* Traversal state threaded through a pass: the heap, the exception thrown *)
(* (if any) and the pass's local variables.                                *)

St(h, e, aux) == [heap |-> h, err |-> e, aux |-> aux]
Throw(st, msg) == [st EXCEPT !.err = msg]
Continue(st) == [st |-> st, res |-> "CONTINUE"]
Skip(st) == [st |-> st, res |-> "SKIP"]
Exit(st) == [st |-> st, res |-> "EXIT"]

\* parent.children.splice(index, 1, item) on the parent object
ReplaceChild(h, parent, index, item) ==
  [h EXCEPT ![parent].children = Splice(@, index, 1, <<item>>)]

Last(s) == s[Len(s)]

-----------------------------------------------------------------------------
(* Pass 1 (4.8), src/src/rngast-validate.ts 452-469 *)

moveNameAttributeToChildTest(n) == n.type \in {"elementNamed", "attributeNamed"}

\* the visitor of visit(tree, [...], (node, index, parent) => ...)
moveNameAttributeToChildVisitor(st, node, parents) ==
  IF parents = <<>> THEN Continue(st)
  ELSE
    LET parent == Last(parents)
        index  == IndexOf(st.heap[parent].children, node)
        n      == st.heap[node]
    IN  IF n.type = "elementNamed"
          THEN LET e == NewElem(st.heap, n.name, n.children)
               IN  Continue([st EXCEPT !.heap = ReplaceChild(e.heap, parent, index, e.id)])
        ELSE IF n.type = "attributeNamed"
          THEN LET a == NewAttr(st.heap, n.name, n.children)
               IN  Continue([st EXCEPT !.heap = ReplaceChild(a.heap, parent, index, a.id)])
        ELSE Continue(st)

-----------------------------------------------------------------------------
(* Pass 2 (4.12), src/src/rngast-validate.ts 478-523 *)

\* node.children.reduce((p1, p2) => builder(p1, p2)), from acc over rest
RECURSIVE ReduceBuilder(_, _, _, _)
ReduceBuilder(h, type, acc, rest) ==
  IF rest = <<>> THEN [heap |-> h, id |-> acc]
  ELSE LET n == New(h, Node(type, "", NoCombine, <<acc, Head(rest)>>))
       IN  ReduceBuilder(n.heap, type, n.id, Tail(rest))

controlChildrenVisitor(st, node, parents) ==
  LET h  == st.heap
      n  == h[node]
      cs == n.children
  IN  CASE n.type \in {"define", "oneOrMore", "zeroOrMore", "optional", "mixed"} ->
             IF Len(cs) > 1
               THEN LET g == New(h, group(cs))
                    IN  Continue([st EXCEPT !.heap = [g.heap EXCEPT ![node].children = <<g.id>>]])
               ELSE Continue(st)
        [] n.type = "element" ->
             IF Len(cs) > 2
               THEN LET g == New(h, group(Tail(cs)))
                    IN  Continue([st EXCEPT !.heap =
                                    [g.heap EXCEPT ![node].children = <<Head(cs), g.id>>]])
               ELSE Continue(st)
        [] n.type = "attribute" ->
             IF Len(cs) = 1
               THEN LET t == New(h, text)
                    IN  Continue([st EXCEPT !.heap =
                                    [t.heap EXCEPT ![node].children = Append(cs, t.id)]])
               ELSE Continue(st)
        [] n.type \in {"choice", "group", "interleave"} ->
             IF parents = <<>> THEN Continue(st)
             ELSE
               LET parent == Last(parents)
                   index  == IndexOf(h[parent].children, node)
               IN  IF Len(cs) = 1
                     THEN Continue([st EXCEPT !.heap = ReplaceChild(h, parent, index, cs[1])])
                   ELSE IF Len(cs) > 2
                     THEN LET f == ReduceBuilder(h, n.type, Head(cs), Tail(cs))
                          IN  Continue([st EXCEPT !.heap =
                                          ReplaceChild(f.heap, parent, index, f.id)])
                   ELSE Continue(st)
        [] OTHER -> Continue(st)

-----------------------------------------------------------------------------
(* Pass 3 (4.13-4.15), src/src/rngast-validate.ts 527-541 *)

replaceMixedOptionalAndZeroOrMoreTest(n) == n.type \in {"mixed", "optional", "zeroOrMore"}

replaceMixedOptionalAndZeroOrMoreVisitor(st, node, parents) ==
  IF parents = <<>> THEN Continue(st)
  ELSE
    LET h      == st.heap
        parent == Last(parents)
        index  == IndexOf(h[parent].children, node)
        n      == h[node]
    IN  IF n.type = "mixed"
          THEN LET t == New(h, text)
                   w == New(t.heap, Node("interleave", "", NoCombine, <<n.children[1], t.id>>))
               IN  Continue([st EXCEPT !.heap = ReplaceChild(w.heap, parent, index, w.id)])
        ELSE IF n.type = "optional"
          THEN LET e == New(h, empty)
                   w == New(e.heap, Node("choice", "", NoCombine, <<n.children[1], e.id>>))
               IN  Continue([st EXCEPT !.heap = ReplaceChild(w.heap, parent, index, w.id)])
        ELSE IF n.type = "zeroOrMore"
          THEN LET o == New(h, Node("oneOrMore", "", NoCombine, <<n.children[1]>>))
                   e == New(o.heap, empty)
                   w == New(e.heap, Node("choice", "", NoCombine, <<o.id, e.id>>))
               IN  Continue([st EXCEPT !.heap = ReplaceChild(w.heap, parent, index, w.id)])
        ELSE Continue(st)

-----------------------------------------------------------------------------
(* Pass 4 (4.17), src/src/rngast-validate.ts 543-567 and 768-807 *)

\* a < b on the two CombineMethod strings
StrLess(a, b) == a = "choice" /\ b = "interleave"

compareEqual(a, b) == 0
compare(a, b) ==
  IF a = NoCombine THEN -1
  ELSE IF b = NoCombine THEN 1
  ELSE IF StrLess(a, b) THEN -1 ELSE IF StrLess(b, a) THEN 1 ELSE 0

\* items.sort((a, b) => compare(a.combine, b.combine)): a stable insertion
\* sort, each item placed after the last one it does not compare below.
\* compare is inconsistent only between two items without combine; whichever
\* order a sort leaves those in, they end up first and the reduce throws.
RECURSIVE InsertionPoint(_, _, _, _)
InsertionPoint(h, sorted, x, j) ==
  IF j >= 1 /\ compare(h[x].combine, h[sorted[j]].combine) < 0
    THEN InsertionPoint(h, sorted, x, j - 1)
    ELSE j
KeepInputOrder(h, items, sorted) == items
RECURSIVE SortByCombine(_, _, _)
SortByCombine(h, items, sorted) ==
  IF items = <<>> THEN sorted
  ELSE LET x == Head(items)
           j == InsertionPoint(h, sorted, x, Len(sorted))
       IN  SortByCombine(h, Tail(items), Splice(sorted, j, 0, <<x>>))

\* items.reduce((p1, p2) => ...) of combine: [st, id]
RECURSIVE combineReduce(_, _, _, _, _, _)
combineReduce(st, p1, rest, kind, defName, errorName) ==
  IF rest = <<>> \/ st.err # "none" THEN [st |-> st, id |-> p1]
  ELSE
    LET h  == st.heap
        p2 == Head(rest)
    IN  IF h[p1].combine = NoCombine /\ h[p2].combine = NoCombine
          THEN [st |-> Throw(st, "Cannot have multiple " \o errorName
                                   \o " without specifying combine"),
                id |-> p1]
        ELSE
          LET h1 == IF h[p1].combine = NoCombine
                      THEN [h EXCEPT ![p1].combine = h[p2].combine] ELSE h
              h2 == IF h1[p2].combine = NoCombine
                      THEN [h1 EXCEPT ![p2].combine = h1[p1].combine] ELSE h1
          IN  IF h2[p1].combine # h2[p2].combine
                THEN [st |-> Throw([st EXCEPT !.heap = h2],
                         "Cannot have multiple ${errorName} with different combine values"),
                      id |-> p1]
              ELSE
                LET inner == New(h2, Node(IF h2[p1].combine = "choice"
                                            THEN "choice" ELSE "interleave",
                                          "", NoCombine,
                                          <<h2[p1].children[1], h2[p2].children[1]>>))
                    res   == New(inner.heap,
                                 Node(kind, defName, h2[p1].combine, <<inner.id>>))
                IN  combineReduce([st EXCEPT !.heap = res.heap], res.id, Tail(rest),
                                  kind, defName, errorName)

combine(st, items, kind, defName, errorName) ==
  LET sorted == SortByCombine(st.heap, items, <<>>)
  IN  IF Len(sorted) = 0
        THEN [st |-> Throw(st, "Cannot have a grammar without a start"), id |-> 0]
        ELSE combineReduce(st, Head(sorted), Tail(sorted), kind, defName, errorName)

\* the keys of definesByName in insertion order
RECURSIVE DefineNamesInOrder(_, _, _)
DefineNamesInOrder(h, cs, acc) ==
  IF cs = <<>> THEN acc
  ELSE LET c == h[Head(cs)]
       IN  DefineNamesInOrder(h, Tail(cs),
             IF c.type = "define" /\ IndexOf(acc, c.name) = -1
               THEN Append(acc, c.name) ELSE acc)

\* the children of kind `type` (and, for defines, of name n), in order
RECURSIVE SelectChildren(_, _, _, _)
SelectChildren(h, cs, type, n) ==
  IF cs = <<>> THEN <<>>
  ELSE LET c == h[Head(cs)]
           rest == SelectChildren(h, Tail(cs), type, n)
       IN  IF c.type = type /\ (type = "start" \/ c.name = n)
             THEN <<Head(cs)>> \o rest ELSE rest

\* [...definesByName.entries()].map(([k, defs]) => combine(defs, ...)): [st, ids]
RECURSIVE combineDefines(_, _, _, _)
combineDefines(st, cs, names, acc) ==
  IF names = <<>> \/ st.err # "none" THEN [st |-> st, ids |-> acc]
  ELSE LET k == Head(names)
           r == combine(st, SelectChildren(st.heap, cs, "define", k), "define", k,
                        "defines for name " \o k)
       IN  combineDefines(r.st, cs, Tail(names), Append(acc, r.id))

eliminateCombineAttributeTest(n) == n.type = "grammar"

eliminateCombineAttributeVisitor(st, node, parents) ==
  LET h      == st.heap
      cs     == h[node].children
      starts == SelectChildren(h, cs, "start", "")
  IN  IF Len(starts) = 0
        THEN Continue(Throw(st, "A grammar must have a start element"))
        ELSE
          LET collectedStarts == combine(st, starts, "start", "", "start elements")
              collectedDefines ==
                combineDefines(collectedStarts.st, cs, DefineNamesInOrder(h, cs, <<>>), <<>>)
              st2 == collectedDefines.st
          IN  IF st2.err # "none" THEN Continue(st2)
              ELSE Continue([st2 EXCEPT !.heap[node].children =
                                <<collectedStarts.id>> \o collectedDefines.ids])

-----------------------------------------------------------------------------
(* Pass 5 (4.18), src/src/rngast-validate.ts 578-629 and 809-844 *)

\* [st, id]: the top grammar object, created around the pattern if need be
ensureTopLevelGrammar(st) ==
  LET h  == st.heap
      cs == h[Root].children
  IN  IF Len(cs) # 1
        THEN [st |-> Throw(st, "Must have exactly one top level element"), id |-> 0]
      ELSE IF h[cs[1]].type # "grammar"
        THEN LET s == New(h, Node("start", "", NoCombine, <<cs[1]>>))
                 g == New(s.heap, Node("grammar", "", NoCombine, <<s.id>>))
             IN  [st |-> [st EXCEPT !.heap = [g.heap EXCEPT ![Root].children[1] = g.id]],
                  id |-> g.id]
      ELSE [st |-> st, id |-> cs[1]]

\* selectAll('grammar', tree): the grammar nodes below id, in document order
RECURSIVE SelectAllGrammars(_, _), SelectAllGrammarsIn(_, _)
SelectAllGrammarsIn(h, cs) ==
  IF cs = <<>> THEN <<>>
  ELSE SelectAllGrammars(h, Head(cs)) \o SelectAllGrammarsIn(h, Tail(cs))
SelectAllGrammars(h, id) ==
  (IF h[id].type = "grammar" THEN <<id>> ELSE <<>>) \o SelectAllGrammarsIn(h, h[id].children)

RECURSIVE determineNewNameFrom(_, _, _)
determineNewNameFrom(n, names, k) ==
  LET newName == n \o "__" \o ToString(k)
  IN  IF newName \in names THEN determineNewNameFrom(n, names, k + 1) ELSE newName
determineNewName(n, names) == determineNewNameFrom(n, names, 1)

\* the two nested loops collecting the renames; aux = [names, substitutions],
\* substitutions kept as the sequence of [old, grammar, new] in insertion order
RECURSIVE renameInGrammar(_, _, _)
renameInGrammar(st, parent, cs) ==
  IF cs = <<>> THEN st
  ELSE
    LET node == Head(cs)
        n    == st.heap[node]
    IN  IF n.type # "define" THEN renameInGrammar(st, parent, Tail(cs))
        ELSE IF n.name \notin st.aux.names
          THEN renameInGrammar([st EXCEPT !.aux.names = @ \cup {n.name}], parent, Tail(cs))
        ELSE
          LET newName == determineNewName(n.name, st.aux.names)
          IN  renameInGrammar(
                [st EXCEPT !.heap[node].name = newName,
                           !.aux.substitutions =
                              Append(@, [old |-> n.name, grammar |-> parent, new |-> newName])],
                parent, Tail(cs))
RECURSIVE collectRenames(_, _)
collectRenames(st, allGrammars) ==
  IF allGrammars = <<>> THEN st
  ELSE collectRenames(renameInGrammar(st, Head(allGrammars),
                                      st.heap[Head(allGrammars)].children),
                      Tail(allGrammars))

\* the closest enclosing grammar, skipping one for a parentRef; 0 when the
\* loop runs out of ancestors (the caller throws)
RECURSIVE findClosestGrammarFrom(_, _, _, _)
findClosestGrammarFrom(h, ancestors, i, skip) ==
  IF i < 1 THEN 0
  ELSE IF h[ancestors[i]].type = "grammar"
    THEN IF skip THEN findClosestGrammarFrom(h, ancestors, i - 1, FALSE)
         ELSE ancestors[i]
  ELSE findClosestGrammarFrom(h, ancestors, i - 1, skip)
findClosestGrammar(h, ancestors, refType) ==
  findClosestGrammarFrom(h, ancestors, Len(ancestors), refType = "parentRef")

\* the visitor of visitParents(tree, (node, ancestors) => ...)
fixRefsVisitor(st, node, ancestors) ==
  LET n    == st.heap[node]
      subs == st.aux.substitutions
      relevantSubs == SelectSeq(subs, LAMBDA s : s.old = n.name)
  IN  IF n.type # "ref" /\ n.type # "parentRef" THEN Continue(st)
      ELSE IF relevantSubs = <<>> THEN Continue(st)
      ELSE
        LET gr == findClosestGrammar(st.heap, ancestors, n.type)
            hits == SelectSeq(relevantSubs, LAMBDA s : s.grammar = gr)
        IN  IF gr = 0
              THEN Continue(Throw(st, "Each ref or parentRef must be within a grammar"))
            ELSE IF hits = <<>>
              THEN Continue(Throw(st, "Should have found a substitution for " \o n.name))
            ELSE Continue([st EXCEPT !.heap[node].name = hits[1].new,
                                     !.heap[node].type = "ref"])

\* topGrammar.children.push(child) for each define child of node
RECURSIVE pushDefines(_, _, _)
pushDefines(h, top, cs) ==
  IF cs = <<>> THEN h
  ELSE pushDefines(IF h[Head(cs)].type = "define"
                     THEN [h EXCEPT ![top].children = Append(@, Head(cs))] ELSE h,
                   top, Tail(cs))

hoistTest(n) == n.type = "grammar"

\* the visitor of the last visit of the pass; aux.topGrammar is topGrammar
hoistVisitor(st, node, parents) ==
  IF parents = <<>> THEN Continue(st)
  ELSE IF node = st.aux.topGrammar THEN Continue(st)
  ELSE
    LET parent == Last(parents)
        index  == IndexOf(st.heap[parent].children, node)
        h1     == pushDefines(st.heap, st.aux.topGrammar, st.heap[node].children)
        startNode == h1[node].children[1]
    IN  Continue([st EXCEPT !.heap = ReplaceChild(h1, parent, index, h1[startNode].children[1])])

-----------------------------------------------------------------------------
(* Pass 6 (4.19), src/src/rngast-validate.ts 638-706 and 846-851 *)

\* const [, _defines] = grammar.children: the SECOND element of the array,
\* a node object, or undefined when the grammar has only its start
SecondElement(cs) ==
  IF Len(cs) >= 2 THEN [kind |-> "object", id |-> cs[2]] ELSE [kind |-> "undefined"]

\* the Map built by the loop over an array of defines (a later define of a
\* name replaces an earlier one)
MapOfDefines(h, defines) ==
  [n \in {h[defines[i]].name : i \in 1..Len(defines)} |->
     defines[CHOOSE i \in 1..Len(defines) :
               h[defines[i]].name = n /\ \A j \in (i + 1)..Len(defines) : h[defines[j]].name # n]]

\* [st, map]. for (const define of _defines) asks _defines for its iterator:
\* a plain node object and undefined have none, and the loop throws.
getMapOfDefines(st, grammarId) ==
  LET defines_ == SecondElement(st.heap[grammarId].children)
  IN  IF defines_.kind = "array"
        THEN [st |-> st, map |-> MapOfDefines(st.heap, defines_.items)]
        ELSE [st |-> Throw(st, "TypeError: _defines is not iterable"), map |-> <<>>]

MapGet(map, n) == IF n \in DOMAIN map THEN map[n] ELSE 0

\* aux = [reachedNames, definesByName, topGrammar]
removeUnreachableDefinesVisitor(st, node, parents) ==
  LET n == st.heap[node]
  IN  IF n.type = "ref" /\ n.name \notin st.aux.reachedNames
        THEN LET reached == st.aux.reachedNames \cup {n.name}
                 top == st.aux.topGrammar
                 defineToMove == MapGet(st.aux.definesByName, n.name)
                 oldIndex == IndexOf(st.heap[top].children, defineToMove)
                 newIndex == Cardinality(reached)
                 cs1 == Splice(st.heap[top].children, oldIndex, 1, <<>>)
                 cs2 == Splice(cs1, newIndex, 1, <<defineToMove>>)
             IN  Continue([st EXCEPT !.aux.reachedNames = reached,
                                     !.heap[top].children = cs2])
      ELSE IF n.type = "define" /\ n.name \notin st.aux.reachedNames
        \* topGrammar.children.slice(0, index) builds a copy and drops it
        THEN Exit(st)
      ELSE Continue(st)

createDefinesForEachElementTest(n) == n.type = "element"

\* aux = [createdCount, topGrammar]
createDefinesForEachElementVisitor(st, node, parents) ==
  IF parents = <<>> THEN Continue(st)
  ELSE
    LET h      == st.heap
        parent == Last(parents)
        index  == IndexOf(h[parent].children, node)
    IN  IF h[parent].type # "define"
          THEN LET createdCount == st.aux.createdCount + 1
                   newName == "elem__" \o ToString(createdCount)
                   d  == New(h, Node("define", newName, NoCombine, <<node>>))
                   h1 == [d.heap EXCEPT ![st.aux.topGrammar].children = Append(@, d.id)]
                   r  == New(h1, ref(newName))
               IN  Skip([st EXCEPT !.aux.createdCount = createdCount,
                                   !.heap = ReplaceChild(r.heap, parent, index, r.id)])
          ELSE Continue(st)

inlineTest(n) == n.type = "ref"

\* step 3 of canonicalDefineAndElement; aux = [definesByName]. The define's
\* child object itself is put in the ref's place.
inlineVisitor(st, node, parents) ==
  IF parents = <<>> THEN Continue(st)
  ELSE
    LET h      == st.heap
        parent == Last(parents)
        index  == IndexOf(h[parent].children, node)
        def    == MapGet(st.aux.definesByName, h[node].name)
    IN  IF def = 0
          THEN Continue(Throw(st,
                 "TypeError: Cannot read properties of undefined (reading 'children')"))
        ELSE LET defineChild == h[def].children[1]
             IN  IF h[defineChild].type # "element"
                   THEN Continue([st EXCEPT !.heap = ReplaceChild(h, parent, index, defineChild)])
                   ELSE Continue(st)

-----------------------------------------------------------------------------
(* unist-util-visit / unist-util-visit-parents, as the passes use them: the *)
(* visitor is called on a node before its children; the children are then   *)
(* read from that same node object, one index after the other, whatever the *)
(* visitor did to the parent's array. SKIP omits the children, EXIT and an  *)
(* exception end the walk.                                                  *)

Test(pass, n) ==
  CASE pass = "moveNameAttributeToChild" -> moveNameAttributeToChildTest(n)
    [] pass = "replaceMixedOptionalAndZeroOrMore" -> replaceMixedOptionalAndZeroOrMoreTest(n)
    [] pass = "eliminateCombineAttribute" -> eliminateCombineAttributeTest(n)
    [] pass = "hoist" -> hoistTest(n)
    [] pass = "createDefinesForEachElement" -> createDefinesForEachElementTest(n)
    [] pass = "inline" -> inlineTest(n)
    [] OTHER -> TRUE

Visitor(pass, st, node, parents) ==
  CASE pass = "moveNameAttributeToChild" -> moveNameAttributeToChildVisitor(st, node, parents)
    [] pass = "controlChildren" -> controlChildrenVisitor(st, node, parents)
    [] pass = "replaceMixedOptionalAndZeroOrMore" ->
         replaceMixedOptionalAndZeroOrMoreVisitor(st, node, parents)
    [] pass = "eliminateCombineAttribute" -> eliminateCombineAttributeVisitor(st, node, parents)
    [] pass = "fixRefs" -> fixRefsVisitor(st, node, parents)
    [] pass = "hoist" -> hoistVisitor(st, node, parents)
    [] pass = "removeUnreachableDefines" -> removeUnreachableDefinesVisitor(st, node, parents)
    [] pass = "createDefinesForEachElement" ->
         createDefinesForEachElementVisitor(st, node, parents)
    [] pass = "inline" -> inlineVisitor(st, node, parents)

\* visitNode calls the visitor on the node; visitResult continues from the
\* visitor's result r1, visitNext from the result sub of a child's subtree
RECURSIVE visitNode(_, _, _, _), visitResult(_, _, _, _), visitChildren(_, _, _, _, _),
          visitNext(_, _, _, _, _)
visitNode(pass, st, node, parents) ==
  visitResult(pass,
              IF Test(pass, st.heap[node]) THEN Visitor(pass, st, node, parents)
              ELSE Continue(st),
              node, parents)
visitResult(pass, r1, node, parents) ==
  IF r1.st.err # "none" \/ r1.res = "EXIT" THEN Exit(r1.st)
  ELSE IF r1.res = "SKIP" THEN r1
  ELSE visitChildren(pass, r1.st, node, 0, Append(parents, node))
visitChildren(pass, st, node, offset, grandparents) ==
  IF offset >= Len(st.heap[node].children) THEN Continue(st)
  ELSE visitNext(pass, visitNode(pass, st, st.heap[node].children[offset + 1], grandparents),
                 node, offset, grandparents)
visitNext(pass, sub, node, offset, grandparents) ==
  IF sub.res = "EXIT" THEN sub
  ELSE visitChildren(pass, sub.st, node, offset + 1, grandparents)

visit(pass, st) == visitNode(pass, st, Root, <<>>).st

-----------------------------------------------------------------------------
(* The passes *)

moveNameAttributeToChild(st) == visit("moveNameAttributeToChild", st)
controlChildren(st) == visit("controlChildren", st)
replaceMixedOptionalAndZeroOrMore(st) == visit("replaceMixedOptionalAndZeroOrMore", st)
eliminateCombineAttribute(st) == visit("eliminateCombineAttribute", st)

\* Each pass is a sequence of statements; a statement that throws ends the
\* pass. The operators below are the statements in order, each one taking
\* what the statement before it produced.

\* ensureOnlyOneGrammarElement after topGrammar is known: the renames, then
\* the visit fixing the refs
renameAndFixRefs(top) ==
  IF top.st.err # "none" THEN top.st
  ELSE visit("fixRefs",
             collectRenames([top.st EXCEPT !.aux = [names |-> {}, substitutions |-> <<>>,
                                                    topGrammar |-> top.id]],
                            SelectAllGrammars(top.st.heap, Root)))
\* the last visit of ensureOnlyOneGrammarElement
hoistGrammars(fixed) ==
  IF fixed.err # "none" THEN fixed ELSE visit("hoist", fixed)
ensureOnlyOneGrammarElement(st) ==
  hoistGrammars(renameAndFixRefs(ensureTopLevelGrammar(st)))

\* removeUnreachableDefines once definesByName is built
visitReachable(topGrammar, defs) ==
  IF defs.st.err # "none" THEN defs.st
  ELSE visit("removeUnreachableDefines",
             [defs.st EXCEPT !.aux = [reachedNames |-> {}, definesByName |-> defs.map,
                                      topGrammar |-> topGrammar]])
removeUnreachableDefinesIn(top) ==
  IF top.st.err # "none" THEN top.st
  ELSE visitReachable(top.id, getMapOfDefines(top.st, top.id))
removeUnreachableDefines(st) == removeUnreachableDefinesIn(ensureTopLevelGrammar(st))

createDefinesForEachElementIn(top) ==
  IF top.st.err # "none" THEN top.st
  ELSE visit("createDefinesForEachElement",
             [top.st EXCEPT !.aux = [createdCount |-> 0, topGrammar |-> top.id]])
createDefinesForEachElement(st) == createDefinesForEachElementIn(ensureTopLevelGrammar(st))

\* the last statement of canonicalDefineAndElement: the filter of the top
\* grammar's children
keepElementDefines(topGrammar, s3) ==
  IF s3.err # "none" THEN s3
  ELSE [s3 EXCEPT !.heap[topGrammar].children =
          SelectSeq(@, LAMBDA ch : s3.heap[ch].type # "define"
                                   \/ s3.heap[s3.heap[ch].children[1]].type = "element")]
\* step 3 of canonicalDefineAndElement once definesByName is built
inlineRefs(topGrammar, defs) ==
  IF defs.st.err # "none" THEN defs.st
  ELSE keepElementDefines(topGrammar,
         visit("inline", [defs.st EXCEPT !.aux = [definesByName |-> defs.map]]))
inlineNonElementDefinesIn(top) ==
  IF top.st.err # "none" THEN top.st
  ELSE inlineRefs(top.id, getMapOfDefines(top.st, top.id))
inlineNonElementDefines(s2) ==
  IF s2.err # "none" THEN s2 ELSE inlineNonElementDefinesIn(ensureTopLevelGrammar(s2))
createDefinesThenInline(s1) ==
  IF s1.err # "none" THEN s1 ELSE inlineNonElementDefines(createDefinesForEachElement(s1))
canonicalDefineAndElement(st) == createDefinesThenInline(removeUnreachableDefines(st))

-----------------------------------------------------------------------------
(* Passes 7 and 8 (4.20, 4.21), src/src/rngast-validate.ts 709-763, 857-889 *)

TypeErrorType == "TypeError: Cannot read properties of undefined (reading 'type')"

limitLocationsOfNotAllowedVisitor(st, node, index, parent) ==
  LET h  == st.heap
      el == h[node]
      cs == el.children
      na == New(h, notAllowed)
      replaced == [st EXCEPT !.heap = ReplaceChild(na.heap, parent, index, na.id)]
  IN  CASE el.type = "attribute" ->
             IF Len(cs) < 2 THEN Throw(st, TypeErrorType)
             ELSE IF h[cs[2]].type = "notAllowed" THEN replaced ELSE st
        [] el.type \in {"group", "interleave", "oneOrMore"} ->
             IF \E i \in 1..Len(cs) : h[cs[i]].type = "notAllowed" THEN replaced ELSE st
        [] el.type = "choice" ->
             IF Len(cs) < 1 THEN Throw(st, TypeErrorType)
             ELSE IF h[cs[1]].type = "notAllowed"
               \* without a second child undefined is spliced in; modelled as
               \* the TypeError its next use raises
               THEN IF Len(cs) < 2 THEN Throw(st, TypeErrorType)
                    ELSE [st EXCEPT !.heap = ReplaceChild(h, parent, index, cs[2])]
             ELSE IF Len(cs) < 2 THEN Throw(st, TypeErrorType)
             ELSE IF h[cs[2]].type = "notAllowed"
               THEN [st EXCEPT !.heap = ReplaceChild(h, parent, index, cs[1])]
             ELSE st
        [] OTHER -> st

avoidEmptyInGroupSpotsVisitor(st, node, index, parent) ==
  LET h  == st.heap
      el == h[node]
      cs == el.children
  IN  CASE el.type \in {"group", "interleave"} ->
             IF Len(cs) < 1 THEN Throw(st, TypeErrorType)
             ELSE IF h[cs[1]].type = "empty"
               THEN IF Len(cs) < 2 THEN Throw(st, TypeErrorType)
                    ELSE [st EXCEPT !.heap = ReplaceChild(h, parent, index, cs[2])]
             ELSE IF Len(cs) < 2 THEN Throw(st, TypeErrorType)
             ELSE IF h[cs[2]].type = "empty"
               THEN [st EXCEPT !.heap = ReplaceChild(h, parent, index, cs[1])]
             ELSE st
        [] el.type = "choice" ->
             IF Len(cs) < 2 THEN Throw(st, TypeErrorType)
             ELSE IF h[cs[2]].type = "empty"
               THEN [st EXCEPT !.heap[node].children = [@ EXCEPT ![1] = cs[2], ![2] = cs[1]]]
             ELSE st
        [] el.type = "oneOrMore" ->
             IF Len(cs) < 1 THEN Throw(st, TypeErrorType)
             ELSE IF h[cs[1]].type = "empty"
               THEN LET e == New(h, empty)
                    IN  [st EXCEPT !.heap = ReplaceChild(e.heap, parent, index, e.id)]
             ELSE st
        [] OTHER -> st

PostVisitor(pass, st, node, index, parent) ==
  CASE pass = "limitLocationsOfNotAllowed" ->
         limitLocationsOfNotAllowedVisitor(st, node, index, parent)
    [] pass = "avoidEmptyInGroupSpots" -> avoidEmptyInGroupSpotsVisitor(st, node, index, parent)

\* the explicit stack of [node, pass, parentCtx]; an entry comes out with
\* pass = the number of its children already pushed
RECURSIVE visitPostOrderLoop(_, _, _)
visitPostOrderLoop(pass, st, stack) ==
  IF stack = <<>> \/ st.err # "none" THEN st
  ELSE
    LET top  == Last(stack)
        rest == SubSeq(stack, 1, Len(stack) - 1)
        cs   == st.heap[top.node].children
    IN  IF top.pass < Len(cs)
          THEN visitPostOrderLoop(pass, st,
                 rest \o <<[top EXCEPT !.pass = @ + 1],
                           [node |-> cs[top.pass + 1], pass |-> 0, hasParent |-> TRUE,
                            parent |-> top.node, index |-> top.pass]>>)
          ELSE visitPostOrderLoop(pass,
                 IF top.hasParent THEN PostVisitor(pass, st, top.node, top.index, top.parent)
                 ELSE st,
                 rest)

visitPostOrder(pass, st) ==
  visitPostOrderLoop(pass, st,
    <<[node |-> Root, pass |-> 0, hasParent |-> FALSE, parent |-> Root, index |-> 0]>>)

\* the last statement of limitLocationsOfNotAllowed
removeUnreachableAfter(s1) ==
  IF s1.err # "none" THEN s1 ELSE removeUnreachableDefines(s1)
limitLocationsOfNotAllowed(st) ==
  removeUnreachableAfter(visitPostOrder("limitLocationsOfNotAllowed", st))

avoidEmptyInGroupSpots(st) == visitPostOrder("avoidEmptyInGroupSpots", st)

-----------------------------------------------------------------------------
(* The simple-form checker, src/unnamed/part_001 86-197 *)

isNotAllowed(h, id) == h[id].type = "notAllowed"
isEmpty(h, id) == h[id].type = "empty"
isNameClass(h, id) == TRUE

RECURSIVE isNonEmptyPattern(_, _)
isPattern(h, id) == isEmpty(h, id) \/ isNonEmptyPattern(h, id)
isTop(h, id) == isNotAllowed(h, id) \/ isPattern(h, id)
isAttribute(h, id) ==
  LET cs == h[id].children
  IN  Len(cs) = 2 /\ isNameClass(h, cs[1]) /\ isPattern(h, cs[2])
isOneOrMore(h, id) ==
  LET cs == h[id].children IN Len(cs) = 1 /\ isNonEmptyPattern(h, cs[1])
isChoice(h, id) ==
  LET cs == h[id].children
  IN  Len(cs) = 2 /\ isPattern(h, cs[1]) /\ isNonEmptyPattern(h, cs[2])
isGroup(h, id) ==
  LET cs == h[id].children
  IN  Len(cs) = 2 /\ isNonEmptyPattern(h, cs[1]) /\ isNonEmptyPattern(h, cs[2])
isInterleave(h, id) ==
  LET cs == h[id].children
  IN  Len(cs) = 2 /\ isNonEmptyPattern(h, cs[1]) /\ isNonEmptyPattern(h, cs[2])
isNonEmptyPattern(h, id) ==
  CASE h[id].type \in {"text", "data", "value", "ref"} -> TRUE
    [] h[id].type = "attribute" -> isAttribute(h, id)
    [] h[id].type = "oneOrMore" -> isOneOrMore(h, id)
    [] h[id].type = "choice" -> isChoice(h, id)
    [] h[id].type = "group" -> isGroup(h, id)
    [] h[id].type = "interleave" -> isInterleave(h, id)
    [] OTHER -> FALSE
isElement(h, id) ==
  LET cs == h[id].children
  IN  h[id].type = "element" /\ Len(cs) = 2 /\ isNameClass(h, cs[1]) /\ isTop(h, cs[2])
isDefine(h, id) ==
  LET cs == h[id].children
  IN  h[id].type = "define" /\ Len(cs) = 1 /\ isElement(h, cs[1])
isStart(h, id) ==
  LET cs == h[id].children
  IN  h[id].type = "start" /\ Len(cs) = 1 /\ isTop(h, cs[1])
isGrammar(h, id) ==
  LET cs == h[id].children
  IN  /\ h[id].type = "grammar"
      /\ Len(cs) # 0
      /\ isStart(h, cs[1])
      /\ \A i \in 2..Len(cs) : isDefine(h, cs[i])
isRoot(h) ==
  LET cs == h[Root].children IN Len(cs) = 1 /\ isGrammar(h, cs[1])

-----------------------------------------------------------------------------
(* simplifyRngAst, src/src/rngast-validate.ts 428-449: statement k of its  *)
(* body, on the tree and with the exception state of the call so far       *)

NumStatements == 9

Statement(k, st) ==
  CASE k = 1 -> moveNameAttributeToChild(st)
    [] k = 2 -> controlChildren(st)
    [] k = 3 -> replaceMixedOptionalAndZeroOrMore(st)
    [] k = 4 -> eliminateCombineAttribute(st)
    [] k = 5 -> ensureOnlyOneGrammarElement(st)
    [] k = 6 -> canonicalDefineAndElement(st)
    [] k = 7 -> limitLocationsOfNotAllowed(st)
    [] k = 8 -> avoidEmptyInGroupSpots(st)
    [] k = 9 -> IF isRoot(st.heap) THEN st ELSE Throw(st, "Not valid as simplified RelaxNG")

\* the first k statements, stopping at an exception: [heap, err, aux, pc]
RECURSIVE RunStatements(_, _, _)
RunStatements(st, from, to) ==
  IF from > to \/ st.err # "none" THEN st
  ELSE RunStatements(Statement(from, st), from + 1, to)

\* the whole call on a value tree: the tree returned, or the exception
simplifyRngAst(t) ==
  LET st == RunStatements(St(Load(t), "none", <<>>), 1, NumStatements)
  IN  [err |-> st.err, tree |-> ToTree(st.heap, Root)]

-----------------------------------------------------------------------------
(* The grammars simplifyRngAst is called with *)

Names == {"a", "b"}

\* what a grammar's defines hold in the generated grammars
DefBody(n) == IF n = "a" THEN <<elemNamed("q", <<>>)>> ELSE <<text>>
StdDefines == <<define("a", DefBody("a")), define("b", DefBody("b"))>>

PatLeaves(refs) ==
  {empty, text, notAllowed, elemNamed("p", <<>>)} \cup {ref(n) : n \in refs}

Unary == {"optional", "zeroOrMore", "oneOrMore", "mixed", "elementNamed"}
Nary == {"choice", "group", "interleave"}
Kind(k, children) ==
  IF k = "elementNamed" THEN elemNamed("p", children) ELSE Node(k, "", NoCombine, children)

\* patterns nested at most d deep, each level one constructor around the
\* level below, alone or with leaf siblings
RECURSIVE Pats(_, _)
Pats(d, refs) ==
  IF d = 0 THEN PatLeaves(refs)
  ELSE LET below == Pats(d - 1, refs)
       IN  below
           \cup {Kind(k, <<x>>) : k \in Unary \cup Nary, x \in below}
           \cup {Kind(k, <<x, text>>) : k \in Nary \cup {"optional"}, x \in below}
           \cup {Kind(k, <<text, x, empty>>) : k \in Nary, x \in below}

\* one grammar around a pattern
PatternGrammars(depth) ==
  {root(grammar(start(p), StdDefines)) : p \in Pats(depth, Names)}
  \cup {root(p) : p \in Pats(depth, {})}

\* sequences over S of length lo..hi
RECURSIVE SeqsOfLen(_, _)
SeqsOfLen(S, n) ==
  IF n = 0 THEN {<<>>} ELSE {Append(s, x) : s \in SeqsOfLen(S, n - 1), x \in S}
SeqsOf(S, lo, hi) == UNION {SeqsOfLen(S, n) : n \in lo..hi}

\* a nested grammar defining name n; its start refers to that define, to the
\* enclosing grammar's define, or to nothing
Nested(n, body, inner) ==
  grammar(start(CASE body = "ref" -> (IF inner = <<>> THEN ref(n) ELSE group(<<ref(n)>> \o inner))
                  [] body = "parentRef" ->
                       (IF inner = <<>> THEN parentRef(n) ELSE group(<<parentRef(n)>> \o inner))
                  [] body = "none" -> (IF inner = <<>> THEN text ELSE group(<<text>> \o inner))
                  [] body = "only" -> (IF inner = <<>> THEN text ELSE inner[1])),
          <<define(n, DefBody("a"))>>)

\* grammars side by side in the top grammar's start
RECURSIVE Siblings(_)
Siblings(specs) ==
  IF specs = <<>> THEN <<>>
  ELSE <<Nested(specs[1][1], specs[1][2], <<>>)>> \o Siblings(Tail(specs))
\* grammars nested one inside the start of the other
RECURSIVE Chain(_)
Chain(specs) ==
  IF Len(specs) = 1 THEN Nested(specs[1][1], specs[1][2], <<>>)
  ELSE Nested(specs[1][1], specs[1][2], <<Chain(Tail(specs))>>)

NestedSpecs(n) == SeqsOf(Names \X {"ref", "parentRef", "none", "only"}, 1, n)

\* up to n grammars below the top grammar
NestedGrammars(n) ==
  {root(grammar(start(group(<<top>> \o Siblings(sp))), StdDefines)) :
       top \in {text, ref("a")}, sp \in NestedSpecs(n)}
  \cup {root(grammar(start(group(<<top, Chain(sp)>>)), StdDefines)) :
       top \in {text, ref("a")}, sp \in NestedSpecs(n)}

Combines == {NoCombine, "choice", "interleave"}
\* the pattern of the i-th member of a group: each member its own
MemberPattern(i) ==
  CASE i = 1 -> ref("a") [] i = 2 -> text [] i = 3 -> empty [] OTHER -> notAllowed
RECURSIVE StartMembers(_, _), DefineMembers(_, _)
StartMembers(cs, i) ==
  IF i > Len(cs) THEN <<>>
  ELSE <<startC(cs[i], MemberPattern(i))>> \o StartMembers(cs, i + 1)
DefineMembers(cs, i) ==
  IF i > Len(cs) THEN <<>>
  ELSE <<defineC("a", cs[i], IF i = 1 THEN DefBody("a") ELSE <<MemberPattern(i)>>)>>
       \o DefineMembers(cs, i + 1)

\* a grammar of up to m start nodes and up to m defines of one name
CombineGrammars(m) ==
  {root(Node("grammar", "", NoCombine, StartMembers(ss, 1) \o DefineMembers(ds, 1))) :
       ss \in SeqsOf(Combines, 1, m), ds \in SeqsOf(Combines, 1, m)}

\* an optional reference to a define holding an element
OptionalRefGrammar ==
  root(grammar(start(optional(<<ref("a")>>)), <<define("a", <<elemNamed("p", <<>>)>>)>>))

InputGrammars(depth, nested, members) ==
  PatternGrammars(depth) \cup NestedGrammars(nested) \cup CombineGrammars(members)
    \cup {OptionalRefGrammar}

-----------------------------------------------------------------------------
(* The specification of a call of simplifyRngAst *)

Idle == "idle"

Init ==
  /\ input \in InputGrammars(MaxDepth, MaxNested, MaxMembers)
  /\ heap = Load(input)
  /\ pc = 0
  /\ err = "none"
  /\ doc = <<>> /\ patterns = <<>> /\ ann = <<>>
  /\ job = [op |-> Idle, name |-> ""] /\ phase = Idle /\ result = Idle

\* the next statement of simplifyRngAst; an exception ends the call
SimplifyStep ==
  /\ phase = Idle
  /\ pc < NumStatements
  /\ err = "none"
  /\ \E st \in {Statement(pc + 1, St(heap, "none", <<>>))} :
       /\ heap' = st.heap
       /\ err' = st.err
  /\ pc' = pc + 1
  /\ UNCHANGED <<input, doc, patterns, ann, job, phase, result>>

Next == SimplifyStep

Spec == Init /\ [][Next]_vars

-----------------------------------------------------------------------------
(* Properties of simplifyRngAst *)

\* the call has ended: by an exception or after its last statement
Done == err # "none" \/ pc = NumStatements

\* the names a grammar (a value tree) defines
DefinedIn(g) ==
  {g.children[i].name : i \in {j \in 1..Len(g.children) : g.children[j].type = "define"}}

\* every ref names a define of the nearest enclosing grammar and every parentRef
\* a define of the grammar around that one; scopes holds the enclosing grammars'
\* defined names, innermost last
RECURSIVE RefsResolve(_, _)
RefsResolve(t, scopes) ==
  LET sc == IF t.type = "grammar" THEN Append(scopes, DefinedIn(t)) ELSE scopes
  IN  /\ t.type = "ref" => (Len(sc) >= 1 /\ t.name \in sc[Len(sc)])
      /\ t.type = "parentRef" => (Len(sc) >= 2 /\ t.name \in sc[Len(sc) - 1])
      /\ \A i \in 1..Len(t.children) : RefsResolve(t.children[i], sc)

\* members of one combine group agree: at most one omits combine, the others
\* share one value
GroupConsistent(members) ==
  /\ Cardinality({i \in 1..Len(members) : members[i].combine = NoCombine}) <= 1
  /\ Cardinality({members[i].combine : i \in 1..Len(members)} \ {NoCombine}) <= 1

\* every grammar has a start, and its starts and same-named defines agree
RECURSIVE CombineConsistent(_)
CombineConsistent(t) ==
  /\ t.type = "grammar" =>
       /\ \E i \in 1..Len(t.children) : t.children[i].type = "start"
       /\ GroupConsistent(SelectSeq(t.children, LAMBDA c : c.type = "start"))
       /\ \A n \in DefinedIn(t) :
            GroupConsistent(SelectSeq(t.children, LAMBDA c : c.type = "define" /\ c.name = n))
  /\ \A i \in 1..Len(t.children) : CombineConsistent(t.children[i])

\* an in-spec grammar: refs resolve and combine values are consistent
InSpec(t) == RefsResolve(t, <<>>) /\ CombineConsistent(t)

\* the top grammar's children in heap h
TopChildren(h) == h[h[Root].children[1]].children
\* the define objects among them, in order
TopDefines(h) == SelectSeq(TopChildren(h), LAMBDA c : h[c].type = "define")

\* the ids of the nodes of the tree below id (the node itself included)
RECURSIVE Reach(_, _)
Reach(h, id) ==
  {id} \cup UNION {Reach(h, h[id].children[i]) : i \in 1..Len(h[id].children)}

\* every ref has exactly one define of its name in the top grammar, holding
\* a single element
RefIntegrity(h) ==
  \A id \in Reach(h, Root) :
    h[id].type = "ref" =>
      LET ds == SelectSeq(TopDefines(h), LAMBDA d : h[d].name = h[id].name)
      IN  /\ Len(ds) = 1
          /\ Len(h[ds[1]].children) = 1
          /\ h[h[ds[1]].children[1]].type = "element"

\* the top grammar's define names are pairwise distinct
DistinctDefineNames(h) ==
  \A i, j \in 1..Len(TopDefines(h)) :
    i # j => h[TopDefines(h)[i]].name # h[TopDefines(h)[j]].name

\* C1: for every in-spec grammar, simplifyRngAst returns normally (no exception,
\* "Not valid as simplified RelaxNG" included) and the tree satisfies isRoot.
C1_SimplifierPostcondition ==
  (InSpec(input) /\ Done) => (err = "none" /\ isRoot(heap))

\* C2: the call returns a tree in which every ref(n) has exactly one define
\* named n among the top grammar's children, whose single child is an element.
C2_ReferenceIntegrity ==
  (InSpec(input) /\ Done) => (err = "none" /\ RefIntegrity(heap))

\* C3: once ensureOnlyOneGrammarElement has run, the define names of the top
\* grammar are pairwise distinct, however many nested grammars define the same
\* name.
C3_NameUniqueness ==
  (InSpec(input) /\ pc = 5 /\ err = "none") => DistinctDefineNames(heap)

\* C4: for every in-spec grammar, simplifyRngAst returns and applying it again
\* to the returned tree succeeds with a structurally equal tree.
C4_Idempotence ==
  (InSpec(input) /\ Done) =>
    /\ err = "none"
    /\ LET again == simplifyRngAst(ToTree(heap, Root))
       IN  again.err = "none" /\ again.tree = ToTree(heap, Root)

-----------------------------------------------------------------------------
(* The validator (src/src/rngast-validate.ts 1-414).  The XML document is *)
(* a heap of node objects, the annotations node.data.validation a         *)
(* function of node identity: they are written while alternatives are    *)
(* tried, so every result carries the annotations as they stand.          *)

\* an XML node; attrs is the sequence of the attributes in key order, each
\* [name, value] with value the typeof of the attribute's value
XNode(type, n, attrs, children) ==
  [type |-> type, name |-> n, attrs |-> attrs, children |-> children]
XAttr(n, value) == [name |-> n, value |-> value]

\* the message constructors
ExpectedText(found) == "Expected text but found " \o found
ExpectedNoText == "Unexpected text in element"
ExpectedElem(n, found) == "Expected element " \o n \o " but found " \o found
ExpectedAttr(n) == "Expected attribute: " \o n
ExpectedAttrText(n, found) ==
  "Expected attribute value for " \o n \o " to be text but was " \o found
ExpectedNoChildren(numMissed) ==
  "Expected no contents but found " \o ToString(numMissed) \o " children"
ExpectedUnexpectedElem(n) == "Unexpected element: " \o n
ExpectedNoMatch == "Could not find matching choice"

\* infinite recursion ends in this exception
RangeError == "RangeError: Maximum call stack size exceeded"

\* a Context and a ValidationResult; a result also carries the annotations
\* after the call and the exception thrown (if any)
Ctx(children, attrs) == [children |-> children, attrs |-> attrs]
EmptyCtx == Ctx(<<>>, <<>>)
Res(ok, probs, ctx, an, e) ==
  [ok |-> ok, probs |-> probs, ctx |-> ctx, ann |-> an, err |-> e]
Raise(msg, ctx, an) == Res(FALSE, <<>>, ctx, an, msg)

addProblems(an, target, problems) == [an EXCEPT ![target] = @ \o problems]

RECURSIVE UnexpectedAttrs(_), UnexpectedChildren(_, _)
UnexpectedAttrs(attrs) ==
  IF attrs = <<>> THEN <<>>
  ELSE <<"Unexpected attribute: " \o Head(attrs).name>> \o UnexpectedAttrs(Tail(attrs))
UnexpectedChildren(d, children) ==
  IF children = <<>> THEN <<>>
  ELSE LET ch == d[Head(children)]
       IN  (CASE ch.type = "element" -> <<ExpectedUnexpectedElem(ch.name)>>
              [] ch.type = "text" -> <<ExpectedNoText>>
              [] OTHER -> <<>>)
           \o UnexpectedChildren(d, Tail(children))
unexpectedNothing(d, ctx) == <<>>
unexpected(d, ctx) == UnexpectedAttrs(ctx.attrs) \o UnexpectedChildren(d, ctx.children)

\* the annotations after endValidationOnNode(el, result)
endValidationOnNode(d, el, res) ==
  addProblems(addProblems(res.ann, el, res.probs), el, unexpected(d, res.ctx))

allGood(ctx, an) == Res(TRUE, <<>>, ctx, an, "none")
invalidEmptyCtx(ctx, problem, an) == Res(FALSE, <<problem>>, EmptyCtx, an, "none")
invalid(ctx, problem, an) == Res(FALSE, <<problem>>, ctx, an, "none")
elemCtx(d, el) == Ctx(d[el].children, d[el].attrs)

\* result2 was computed after result1, from its annotations
concat2(result1, result2) ==
  IF result1.err # "none" THEN result1
  ELSE IF result2.err # "none" THEN result2
  ELSE Res(result1.ok /\ result2.ok, result1.probs \o result2.probs,
           result2.ctx, result2.ann, "none")

\* fallback over two options: option2 is only evaluated when option1 is not ok
fallbackFirstOnly(option1, option2) == option1
fallback(option1, option2) ==
  IF option1.err # "none" \/ option1.ok THEN option1 ELSE option2

\* chain and chainIfOk over two steps: result1 is what step1 returned on the
\* initial context, result2 what step2 returns on result1's context (and from
\* result1's annotations); result2 is only evaluated when step2 is called
chain(result1, result2) ==
  IF result1.err # "none" THEN result1
  ELSE concat2(result1, result2)
chainIfOk(result1, result2) ==
  IF result1.err # "none" \/ ~result1.ok THEN result1
  ELSE concat2(result1, result2)

RECURSIVE collectProblems(_, _, _)
RECURSIVE collectChildren(_, _, _)
collectChildren(d, an, children) ==
  IF children = <<>> THEN <<>>
  ELSE collectProblems(d, an, Head(children)) \o collectChildren(d, an, Tail(children))
\* collectProblems(node) with recursive = true: pairs <<node, problem>>
collectProblems(d, an, node) ==
  [i \in 1..Len(an[node]) |-> <<node, an[node][i]>>] \o collectChildren(d, an, d[node].children)

\* new RelaxNgValidator(spec) on a grammar value tree: the validator's
\* fields, or the exception of the constructor
RECURSIVE LastDefine(_, _)
LastDefine(defs, n) ==
  IF Last(defs).name = n THEN Last(defs) ELSE LastDefine(SubSeq(defs, 1, Len(defs) - 1), n)
RelaxNgValidator(spec) ==
  LET g    == spec.children[1]
      defs == Tail(g.children)
  IN  IF g.children = <<>>
        THEN [err |-> "TypeError: Cannot read properties of undefined (reading 'type')"]
      ELSE IF g.children[1].type # "start"
        THEN [err |-> "Grammar should begin with start"]
      ELSE IF \E i \in 1..Len(defs) : defs[i].type # "define"
        THEN [err |-> "Should not have multiple starts"]
      ELSE [err |-> "none", grammar |-> g, specStart |-> g.children[1],
            defs |-> [n \in {defs[i].name : i \in 1..Len(defs)} |-> LastDefine(defs, n)]]

\* position of attribute n in attrs, 0 when it is not a key
AttrIndexFirstOnly(attrs, n, i) == IF attrs # <<>> /\ attrs[1].name = n THEN 1 ELSE 0
RECURSIVE AttrIndex(_, _, _)
AttrIndex(attrs, n, i) ==
  IF i > Len(attrs) THEN 0
  ELSE IF attrs[i].name = n THEN i ELSE AttrIndex(attrs, n, i + 1)

expectAttrContentOk(content) ==
  content.type \in {"text", "value", "data", "choice", "ref"}

\* validateAttribute: env holds the document and the validator's defs
RECURSIVE validateAttribute(_, _, _, _, _)
validateAttribute(env, an, attrName, attrValue, spec) ==
  CASE spec.type = "ref" ->
         IF spec.name \notin DOMAIN env.defs
           THEN Raise("Referencing unknown definition: " \o spec.name, EmptyCtx, an)
         ELSE IF Len(env.defs[spec.name].children) > 1
           THEN Raise("Unsure how to apply definition with multiple patterns", EmptyCtx, an)
         ELSE IF env.defs[spec.name].children = <<>>
           THEN Raise("TypeError: Cannot read properties of undefined (reading 'type')",
                      EmptyCtx, an)
         ELSE IF ~expectAttrContentOk(env.defs[spec.name].children[1])
           THEN Raise("Cannot use in attribute context: "
                        \o env.defs[spec.name].children[1].type, EmptyCtx, an)
         ELSE validateAttribute(env, an, attrName, attrValue,
                                env.defs[spec.name].children[1])
    [] spec.type = "text" ->
         IF attrValue = "string" THEN allGood(EmptyCtx, an)
         ELSE invalid(EmptyCtx, ExpectedAttrText(attrName, attrValue), an)
    [] OTHER -> Raise("Unhandled validateAttribute: " \o spec.type, EmptyCtx, an)

\* validateDetails(ctx, specs), started from annotations an.  active holds the
\* arguments of the calls of validateDetails on the call stack: the function's
\* control flow depends on its arguments only, so a call made with arguments
\* already on the stack recurses without end until the stack is exhausted.
RECURSIVE validateDetails(_, _, _, _, _), choicePaths(_, _, _, _, _, _)

\* fallback(...allPaths, () => invalid(ctx, noMatch)) over the paths of alts
choicePaths(env, active, an, ctx, alts, restSpecs) ==
  IF alts = <<>> THEN invalid(ctx, ExpectedNoMatch, an)
  ELSE LET result1 == validateDetails(env, active, an, ctx, <<Head(alts)>>)
           path == chain(result1,
                         validateDetails(env, active, result1.ann, result1.ctx, restSpecs))
       IN  fallback(path, choicePaths(env, active, path.ann, ctx, Tail(alts), restSpecs))

validateDetails(env, active, an, ctx, specs) ==
  IF specs = <<>> THEN allGood(ctx, an)
  ELSE IF <<ctx, specs>> \in active THEN Raise(RangeError, ctx, an)
  ELSE
    LET act       == active \cup {<<ctx, specs>>}
        d         == env.doc
        children  == ctx.children
        attrs     == ctx.attrs
        spec      == Head(specs)
        restSpecs == Tail(specs)
        undef     == children = <<>>
        childId   == Head(children)
        child     == d[childId]
        restCtx   == Ctx(Tail(children), attrs)
        VD(c, a, ss) == validateDetails(env, act, a, c, ss)
    IN
    CASE spec.type = "empty" ->
           IF undef THEN allGood(EmptyCtx, an)
           ELSE invalid(ctx, ExpectedNoChildren(Len(children)), an)
      [] spec.type = "text" ->
           IF undef
             THEN concat2(invalid(ctx, ExpectedText("nothing"), an), VD(ctx, an, restSpecs))
           ELSE IF child.type = "text" THEN VD(restCtx, an, restSpecs)
           ELSE concat2(invalid(ctx, ExpectedText(child.type), an), VD(ctx, an, restSpecs))
      [] spec.type = "elementNamed" ->
           IF undef
             THEN concat2(invalid(ctx, ExpectedElem(spec.name, "nothing"), an),
                          VD(ctx, an, restSpecs))
           ELSE IF child.type # "element"
             THEN concat2(invalid(ctx, ExpectedElem(spec.name, child.type), an),
                          VD(ctx, an, restSpecs))
           ELSE IF child.name # spec.name
             THEN concat2(invalid(ctx, ExpectedElem(spec.name, child.name), an),
                          VD(ctx, an, restSpecs))
           ELSE LET inner == VD(elemCtx(d, childId), an, spec.children)
                IN  IF inner.err # "none" THEN inner
                    ELSE VD(restCtx, endValidationOnNode(d, childId, inner), restSpecs)
      [] spec.type = "attributeNamed" ->
           LET i == AttrIndex(attrs, spec.name, 1)
           IN  IF i = 0
                 THEN concat2(invalid(ctx, ExpectedAttr(spec.name), an), VD(ctx, an, restSpecs))
               ELSE IF spec.children = <<>>
                 THEN Raise("TypeError: Cannot read properties of undefined (reading 'type')",
                            ctx, an)
               ELSE LET r1 == validateAttribute(env, an, spec.name, attrs[i].value,
                                                spec.children[1])
                        restAttrs == SubSeq(attrs, 1, i - 1) \o SubSeq(attrs, i + 1, Len(attrs))
                    IN  IF r1.err # "none" THEN r1
                        ELSE concat2(r1, VD(Ctx(children, restAttrs), r1.ann, restSpecs))
      [] spec.type = "ref" ->
           IF spec.name \notin DOMAIN env.defs
             THEN Raise("Referencing unknown definition: " \o spec.name, ctx, an)
           ELSE VD(ctx, an, env.defs[spec.name].children \o restSpecs)
      [] spec.type = "optional" ->
           LET result1 == VD(ctx, an, spec.children)
               option1 == chain(result1, VD(result1.ctx, result1.ann, restSpecs))
           IN  fallback(option1, VD(ctx, option1.ann, restSpecs))
      [] spec.type = "choice" ->
           choicePaths(env, act, an, ctx, spec.children, restSpecs)
      [] spec.type = "zeroOrMore" ->
           LET result1 == VD(ctx, an, spec.children)
               option1 == chainIfOk(result1, VD(result1.ctx, result1.ann, specs))
           IN  fallback(option1, VD(ctx, option1.ann, restSpecs))
      [] spec.type = "oneOrMore" ->
           LET result1 == VD(ctx, an, spec.children)
               option1 == VD(result1.ctx, result1.ann, restSpecs)
           IN  chain(result1, fallback(option1, VD(result1.ctx, option1.ann, specs)))
      [] spec.type = "group" -> VD(ctx, an, spec.children \o restSpecs)
      [] OTHER -> Raise("Unhandled validateDetails: " \o spec.type, ctx, an)

\* validateNode(target, spec): what it returns, the annotations it leaves and
\* the result of its validateDetails
validateNode(env, an, target, spec) ==
  LET res == validateDetails(env, {}, an, Ctx(<<target>>, <<>>), <<spec>>)
  IN  IF res.err # "none" THEN [ok |-> FALSE, ann |-> res.ann, err |-> res.err, details |-> res]
      ELSE [ok |-> res.ok, ann |-> endValidationOnNode(env.doc, target, res),
            err |-> "none", details |-> res]

\* validate(target): the problems of the result are dropped
validate(env, an, target) ==
  LET res == validateDetails(env, {}, an, Ctx(<<target>>, <<>>), env.specStart.children)
  IN  [ok |-> res.ok /\ res.err = "none", ann |-> res.ann, err |-> res.err, details |-> res]

-----------------------------------------------------------------------------
(* The documents and patterns the validator is called with *)

KidKinds == {"p", "b", "#text"}
Kid(k) ==
  IF k = "#text" THEN XNode("text", "", <<>>, <<>>) ELSE XNode("element", k, <<>>, <<>>)
RECURSIVE Kids(_), KidIds(_, _)
Kids(ks) == IF ks = <<>> THEN <<>> ELSE <<Kid(Head(ks))>> \o Kids(Tail(ks))
KidIds(i, n) == IF i > n THEN <<>> ELSE <<i + 1>> \o KidIds(i + 1, n)

\* x(n, attrs, kids): the element is node 1, its children nodes 2, 3, ...
Doc(n, attrs, ks) == <<XNode("element", n, attrs, KidIds(1, Len(ks)))>> \o Kids(ks)
Target == 1

\* <r> with up to MaxKids children; <r foo="string"> with at most one child;
\* and an empty <p/>
Documents ==
  {Doc("r", <<>>, ks) : ks \in SeqsOf(KidKinds, 0, MaxKids)}
  \cup {Doc("r", <<XAttr("foo", "string")>>, ks) : ks \in SeqsOf(KidKinds, 0, 1)}
  \cup {Doc("p", <<>>, <<>>)}

\* the attributes patterns name; <r> carries some of foo and bar, in either
\* order of insertion, never baz
AttrNames == {"foo", "bar", "baz"}
AttrDocuments ==
  {Doc("r", as, ks) :
     as \in {<<XAttr("foo", "string")>>, <<XAttr("bar", "string")>>,
             <<XAttr("foo", "string"), XAttr("bar", "string")>>,
             <<XAttr("bar", "string"), XAttr("foo", "string")>>},
     ks \in SeqsOf({"p"}, 0, 1)}

\* the defines of the validator's grammar
ValidatorDefines ==
  <<define("a", <<elemNamed("p", <<>>)>>), define("b", <<text>>),
    define("v", <<Leaf("value")>>)>>

Atoms ==
  {empty, text, elemNamed("p", <<>>), elemNamed("b", <<>>), elemNamed("p", <<text>>),
   attrNamed("foo", text), ref("a")}
Repeats == {"optional", "zeroOrMore", "oneOrMore"}
Heads ==
  Atoms
  \cup {Kind(k, <<x>>) : k \in Repeats, x \in Atoms}
  \cup {choice(<<x, y>>) : x, y \in Atoms}
  \cup {group(<<x, text>>) : x \in Atoms}
  \cup {zeroOrMore(<<Kind(k, <<elemNamed("p", <<>>)>>)>>) : k \in Repeats}
  \cup {interleave(<<text>>)}
PatternLists ==
  {<<>>} \cup {<<h>> \o rest : h \in Heads, rest \in SeqsOf(Atoms, 0, 1)}

\* sequences of attributeNamed patterns with text content and distinct names
AttrBags ==
  {[i \in DOMAIN ns |-> attrNamed(ns[i], text)] :
     ns \in {q \in SeqsOf(AttrNames, 2, 3) : \A i, j \in DOMAIN q : i # j => q[i] # q[j]}}
\* what an attribute's content can be: text, value, data, choice, directly or
\* through a define
AttrContents ==
  {text, Leaf("value"), Leaf("data"), choice(<<Leaf("value"), Leaf("value")>>),
   ref("b"), ref("v")}
AttrPatternLists == AttrBags \cup {<<attrNamed("foo", c)>> : c \in AttrContents}

\* the grammar of the validator: the start pattern is the document element
ValidatorGrammar(n, specs) == root(grammar(start(elemNamed(n, specs)), ValidatorDefines))

-----------------------------------------------------------------------------
(* The specification of a call of the validator on a fresh document *)

NoAnnotations(d) == [id \in 1..Len(d) |-> <<>>]
NoJob == [op |-> Idle, name |-> ""]

\* the validator and the document its methods work on
EnvStart(n, d, specs) ==
  LET v == RelaxNgValidator(ValidatorGrammar(n, specs))
  IN  [doc |-> d, defs |-> v.defs, specStart |-> v.specStart]
Env(d, specs) == EnvStart(d[Target].name, d, specs)

InitV ==
  /\ \/ doc \in Documents /\ patterns \in PatternLists
     \/ doc \in AttrDocuments /\ patterns \in AttrPatternLists
  /\ ann = NoAnnotations(doc)
  /\ job = NoJob /\ phase = "ready" /\ result = Idle
  /\ heap = <<>> /\ pc = 0 /\ err = "none" /\ input = empty

\* validator.validateNode(target, elemNamed(n, ...patterns))
ValidateNode ==
  /\ phase = "ready"
  /\ \E n \in {"r", "p"} :
       LET res == validateNode(Env(doc, patterns), ann, Target, elemNamed(n, patterns))
       IN  /\ ann' = res.ann
           /\ result' = res
           /\ job' = [op |-> "validateNode", name |-> n]
  /\ phase' = "done"
  /\ UNCHANGED <<heap, pc, err, input, doc, patterns>>

\* validator.validateDetails(elemCtx(target), patterns)
ValidateDetails ==
  /\ phase = "ready"
  /\ LET res == validateDetails(Env(doc, patterns), {}, ann, elemCtx(doc, Target), patterns)
     IN  /\ ann' = res.ann
         /\ result' = [ok |-> res.ok, ann |-> res.ann, err |-> res.err, details |-> res]
  /\ job' = [op |-> "validateDetails", name |-> ""]
  /\ phase' = "done"
  /\ UNCHANGED <<heap, pc, err, input, doc, patterns>>

\* validator.validate(target), the grammar's start being elemNamed(n, ...patterns)
Validate ==
  /\ phase = "ready"
  /\ \E n \in {"r", "p"} :
       LET res == validate(EnvStart(n, doc, patterns), ann, Target)
       IN  /\ ann' = res.ann
           /\ result' = res
           /\ job' = [op |-> "validate", name |-> n]
  /\ phase' = "done"
  /\ UNCHANGED <<heap, pc, err, input, doc, patterns>>

NextV == ValidateNode \/ ValidateDetails \/ Validate

SpecV == InitV /\ [][NextV]_vars

-----------------------------------------------------------------------------
(* Properties of the validator *)

\* the call made was validateDetails(elemCtx(target), patterns) and has ended
DetailsDone == phase = "done" /\ job.op = "validateDetails"
\* the call made was validateNode(target, elemNamed(n, ...patterns)) with n the
\* target's name, and has ended
NodeDone == phase = "done" /\ job.op = "validateNode" /\ job.name = doc[Target].name

HeadIs(type) == patterns # <<>> /\ Head(patterns).type = type

\* the context and the annotations the call started from
Ctx0 == elemCtx(doc, Target)
An0 == NoAnnotations(doc)
\* matching specs alone on the untouched document
Match(specs) == validateDetails(Env(doc, patterns), {}, An0, Ctx0, specs)
\* matching first and then rest on the untouched document
Then(first, rest) ==
  LET result1 == Match(first)
  IN  chain(result1, validateDetails(Env(doc, patterns), {}, result1.ann, result1.ctx, rest))
ThenIfOk(first, rest) ==
  LET result1 == Match(first)
  IN  chainIfOk(result1, validateDetails(Env(doc, patterns), {}, result1.ann, result1.ctx, rest))
Triple(res) == <<res.ok, res.probs, res.ctx>>
Min(S) == CHOOSE x \in S : \A y \in S : x <= y

\* C5: validateDetails returns after finitely many recursive calls (no define
\* of the validator's grammar refers to another, so no cycle of refs exists): the
\* call never ends by exhausting the call stack.
C5_ValidatorTermination == phase = "done" => result.err # RangeError

\* C6: with choice(a1..ak) as head pattern the match is ok iff matching some ai
\* and then the rest on the input context is ok, the result is that of the first
\* such ai, and when there is none the result is not ok with the single problem
\* noMatch and the input context as remaining context.
C6_ChoiceBacktracking ==
  (DetailsDone /\ HeadIs("choice")) =>
    LET alts == Head(patterns).children
        path(i) == Then(<<alts[i]>>, Tail(patterns))
        decisive == {i \in 1..Len(alts) : path(i).err # "none" \/ path(i).ok}
    IN  IF decisive = {}
          THEN /\ result.err = "none"
               /\ Triple(result.details) = <<FALSE, <<ExpectedNoMatch>>, Ctx0>>
        ELSE IF path(Min(decisive)).err # "none"
          THEN result.err = path(Min(decisive)).err
        ELSE /\ result.err = "none"
             /\ result.ok
             /\ Triple(result.details) = Triple(path(Min(decisive)))

\* a choice whose first alternative failed and whose second one was taken
C6_Witness ==
  /\ DetailsDone /\ HeadIs("choice") /\ result.err = "none" /\ result.ok
  /\ ~Then(<<Head(patterns).children[1]>>, Tail(patterns)).ok
  /\ Then(<<Head(patterns).children[2]>>, Tail(patterns)).ok

\* C7: when optional(P) followed by Q is resolved by the fallback (P then Q is
\* not ok, Q alone on the unchanged context is ok), the problems returned and
\* those collectProblems finds in the document are the ones of matching Q alone.
C7_OptionalAbsorption ==
  (DetailsDone /\ HeadIs("optional")) =>
    LET branch == Then(Head(patterns).children, Tail(patterns))
        alone  == Match(Tail(patterns))
    IN  (branch.err = "none" /\ ~branch.ok /\ alone.err = "none" /\ alone.ok) =>
          /\ result.err = "none"
          /\ result.details.probs = alone.probs
          /\ collectProblems(doc, ann, Target) = collectProblems(doc, alone.ann, Target)

\* the options the head pattern's fallback tries in order on the input context
Options ==
  CASE HeadIs("choice") ->
         [i \in 1..Len(Head(patterns).children) |->
            Then(<<Head(patterns).children[i]>>, Tail(patterns))]
         \o <<invalid(Ctx0, ExpectedNoMatch, An0)>>
    [] HeadIs("optional") ->
         <<Then(Head(patterns).children, Tail(patterns)), Match(Tail(patterns))>>
    [] HeadIs("zeroOrMore") ->
         <<ThenIfOk(Head(patterns).children, patterns), Match(Tail(patterns))>>
\* the option whose outcome is committed: the first ok one, else the last
Committed ==
  LET oks == {i \in 1..Len(Options) : Options[i].ok}
  IN  Options[IF oks = {} THEN Len(Options) ELSE Min(oks)]

\* C8: after validateNode the document carries the diagnostics of the committed
\* outcome only, each once: the alternatives tried and abandoned left no
\* annotation on any node.
C8_BacktrackingDiscipline ==
  (NodeDone /\ result.err = "none"
     /\ (HeadIs("choice") \/ HeadIs("optional") \/ HeadIs("zeroOrMore"))) =>
    ann = endValidationOnNode(doc, Target, Committed)

\* the first k children of the target are elements named n
LeadingElems(n, k) ==
  /\ k <= Len(doc[Target].children)
  /\ \A i \in 1..k : /\ doc[doc[Target].children[i]].type = "element"
                     /\ doc[doc[Target].children[i]].name = n
\* rest matches the target's children after the first k cleanly
CleanRest(k, rest) ==
  LET res == validateDetails(Env(doc, patterns), {}, An0,
                             Ctx(SubSeq(Ctx0.children, k + 1, Len(Ctx0.children)),
                                 Ctx0.attrs), rest)
  IN  /\ res.err = "none" /\ res.ok /\ res.probs = <<>>
      /\ res.ctx = EmptyCtx /\ res.ann = An0

\* C9: oneOrMore(elemNamed(n)) (k >= 1) or zeroOrMore(elemNamed(n)) (k >= 0)
\* followed by rest, on k elements n followed by children that rest matches
\* cleanly, is plausible, consumes everything and leaves no problem anywhere.
C9_GreedyRepetition ==
  (NodeDone /\ patterns # <<>>) =>
    \A k \in 0..Len(doc[Target].children) :
      ( /\ \/ Head(patterns) = zeroOrMore(<<elemNamed("p", <<>>)>>)
           \/ Head(patterns) = oneOrMore(<<elemNamed("p", <<>>)>>) /\ k >= 1
        /\ LeadingElems("p", k)
        /\ CleanRest(k, Tail(patterns)) ) =>
        /\ result.err = "none" /\ result.ok
        /\ result.details.probs = <<>>
        /\ collectProblems(doc, ann, Target) = <<>>

\* the problems collectProblems finds, as a set
Collected == {collectProblems(doc, ann, Target)[i] :
                i \in 1..Len(collectProblems(doc, ann, Target))}

\* C10: for an element named X without attributes and children,
\* validateNode(element, elemNamed(X)) is plausible and leaves no problem, and
\* validateNode(element, elemNamed(Y)) with Y # X is not plausible and leaves
\* exactly the problems elem(Y, X) and unexpectedElem(X).
C10_ElementNameAgreement ==
  (phase = "done" /\ job.op = "validateNode" /\ patterns = <<>>
     /\ doc[Target].attrs = <<>> /\ doc[Target].children = <<>>) =>
    IF job.name = doc[Target].name
      THEN result.err = "none" /\ result.ok /\ collectProblems(doc, ann, Target) = <<>>
      ELSE /\ result.err = "none" /\ ~result.ok
           /\ Len(collectProblems(doc, ann, Target)) = 2
           /\ Collected = {<<Target, ExpectedElem(job.name, doc[Target].name)>>,
                           <<Target, ExpectedUnexpectedElem(doc[Target].name)>>}

\* an element validated against another name
C10_Witness ==
  /\ phase = "done" /\ job.op = "validateNode" /\ patterns = <<>>
  /\ doc[Target].attrs = <<>> /\ doc[Target].children = <<>>
  /\ job.name # doc[Target].name
  /\ ~result.ok

RECURSIVE AllText(_, _)
AllText(d, children) ==
  children = <<>> \/ (d[Head(children)].type = "text" /\ AllText(d, Tail(children)))
NoTexts(n) == [i \in 1..n |-> ExpectedNoText]

\* C11: with empty as the head pattern, the match is ok exactly when the context
\* has no remaining children; otherwise it is not ok, reports the one problem
\* noChildren(N) for the N remaining children and returns the context
\* unchanged. An element with N >= 1 text children validated against
\* elemNamed of its name built with no patterns stays plausible and carries
\* noChildren(N) followed by one noText per text child.
C11_EmptyPattern ==
  /\ (DetailsDone /\ HeadIs("empty")) =>
       /\ result.err = "none"
       /\ result.ok <=> (Ctx0.children = <<>>)
       /\ Ctx0.children # <<>> =>
            /\ result.details.probs = <<ExpectedNoChildren(Len(Ctx0.children))>>
            /\ result.details.ctx = Ctx0
            /\ ann = An0
  /\ (NodeDone /\ patterns = <<>> /\ doc[Target].attrs = <<>>
        /\ doc[Target].children # <<>> /\ AllText(doc, doc[Target].children)) =>
       /\ result.err = "none" /\ result.ok
       /\ ann[Target] = <<ExpectedNoChildren(Len(doc[Target].children))>>
                          \o NoTexts(Len(doc[Target].children))

\* empty met two remaining children
C11_Witness ==
  /\ DetailsDone /\ HeadIs("empty") /\ Len(Ctx0.children) = 2
  /\ ~result.ok /\ result.details.probs = <<ExpectedNoChildren(2)>>
  /\ result.details.ctx = Ctx0

\* the patterns are two or more attributeNamed with text content and pairwise
\* distinct names
IsAttrBag ==
  /\ Len(patterns) >= 2
  /\ \A i \in DOMAIN patterns :
       patterns[i].type = "attributeNamed" /\ patterns[i].children = <<text>>
  /\ \A i, j \in DOMAIN patterns : i # j => patterns[i].name # patterns[j].name
PatternNames == {patterns[i].name : i \in DOMAIN patterns}
Perms(s) == {[i \in DOMAIN s |-> s[f[i]]] : f \in Permutations(DOMAIN s)}
\* an attribute object as the set of its entries, and a list as a multiset
AttrMap(attrs) == {attrs[i] : i \in DOMAIN attrs}
AttrKeys(attrs) == {attrs[i].name : i \in DOMAIN attrs}
ProbCount(probs, m) == Cardinality({i \in DOMAIN probs : probs[i] = m})
SameBag(p, q) == Len(p) = Len(q) /\ \A i \in DOMAIN p : ProbCount(p, p[i]) = ProbCount(q, p[i])

\* C12: for a sequence of attributeNamed patterns with text content and pairwise
\* distinct names, the verdict, the multiset of problems and the remaining
\* attribute map are the same for every permutation of the sequence; each
\* present attribute is removed exactly once and each absent one yields exactly
\* one 'Expected attribute: n', the children of the context staying as they were.
C12_AttributeBagOrder ==
  (DetailsDone /\ IsAttrBag) =>
    /\ result.err = "none"
    /\ \A q \in Perms(patterns) :
         /\ Match(q).err = "none"
         /\ Match(q).ok = result.ok
         /\ SameBag(Match(q).probs, result.details.probs)
         /\ AttrMap(Match(q).ctx.attrs) = AttrMap(result.details.ctx.attrs)
         /\ Match(q).ctx.children = result.details.ctx.children
    /\ AttrMap(result.details.ctx.attrs)
         = {a \in AttrMap(Ctx0.attrs) : a.name \notin PatternNames}
    /\ Len(result.details.ctx.attrs)
         = Len(Ctx0.attrs) - Cardinality(PatternNames \cap AttrKeys(Ctx0.attrs))
    /\ \A n \in PatternNames :
         ProbCount(result.details.probs, ExpectedAttr(n))
           = IF n \in AttrKeys(Ctx0.attrs) THEN 0 ELSE 1
    /\ Len(result.details.probs) = Cardinality(PatternNames \ AttrKeys(Ctx0.attrs))
    /\ result.ok <=> PatternNames \subseteq AttrKeys(Ctx0.attrs)
    /\ result.details.ctx.children = Ctx0.children
    /\ ann = An0

\* three patterns met <r bar foo>: the pattern named first is the attribute
\* inserted last, both attributes are consumed and baz is reported
C12_Witness ==
  /\ DetailsDone /\ IsAttrBag /\ Len(patterns) = 3
  /\ Len(Ctx0.attrs) = 2 /\ patterns[1].name = Ctx0.attrs[2].name
  /\ ~result.ok /\ result.details.probs = <<ExpectedAttr("baz")>>
  /\ result.details.ctx.attrs = <<>>

\* the pattern an attribute's content stands for: a ref stands for the single
\* pattern of its define
AttrContent(c) ==
  IF c.type = "ref" /\ c.name \in DOMAIN Env(doc, patterns).defs
       /\ Len(Env(doc, patterns).defs[c.name].children) = 1
    THEN Env(doc, patterns).defs[c.name].children[1]
    ELSE c
\* the one pattern is an attributeNamed whose attribute the element carries
OneAttrPresent ==
  /\ Len(patterns) = 1 /\ HeadIs("attributeNamed")
  /\ Head(patterns).name \in AttrKeys(Ctx0.attrs)

\* C13: validating the value of a present attribute returns ok without raising
\* when the attribute's content is text (the value being a string), value, data
\* or choice, given directly or through a ref to a define with a single pattern.
C13_AttributeSubMatcher ==
  (DetailsDone /\ OneAttrPresent
     /\ AttrContent(Head(patterns).children[1]).type \in {"text", "value", "data", "choice"}) =>
    result.err = "none" /\ result.ok

\* validateNode(target, p) on the untouched document, p being the pattern of
\* the start of the grammar validate worked with
NodeAgainstStart ==
  validateNode(EnvStart(job.name, doc, patterns), An0, Target,
               EnvStart(job.name, doc, patterns).specStart.children[1])

\* C14: validate(target) returns the verdict and leaves the annotations of
\* validateNode(target, p) with p the pattern of the grammar's start: the
\* outermost problems are attached to the target.
C14_ValidateAnnotatesRoot ==
  (phase = "done" /\ job.op = "validate") =>
    /\ result.err = NodeAgainstStart.err
    /\ result.ok = NodeAgainstStart.ok
    /\ ann = NodeAgainstStart.ann

-----------------------------------------------------------------------------
(* Properties of the passes of simplifyRngAst *)

\* the tree the first k statements of the call leave
TreeAfter(k) == ToTree(RunStatements(St(Load(input), "none", <<>>), 1, k).heap, Root)

\* the value a consistent group folds into: the member lacking combine first,
\* the others in input order, folded from the left under their combine value
RECURSIVE FoldLeft(_, _, _)
FoldLeft(acc, rest, comb) ==
  IF rest = <<>> THEN acc
  ELSE FoldLeft(Node(acc.type, acc.name, comb,
                     <<Node(comb, "", NoCombine, <<acc.children[1], Head(rest).children[1]>>)>>),
                Tail(rest), comb)
GroupValue(members) ==
  LET sorted == SelectSeq(members, LAMBDA m : m.combine = NoCombine)
                  \o SelectSeq(members, LAMBDA m : m.combine # NoCombine)
  IN  IF Len(members) = 1 THEN members[1]
      ELSE FoldLeft(sorted[1], Tail(sorted), sorted[Len(sorted)].combine)
\* the names a grammar defines, in order of first occurrence
RECURSIVE NamesInOrder(_, _)
NamesInOrder(cs, acc) ==
  IF cs = <<>> THEN acc
  ELSE NamesInOrder(Tail(cs), IF Head(cs).type = "define" /\ \A i \in DOMAIN acc : acc[i] # Head(cs).name
                                THEN Append(acc, Head(cs).name) ELSE acc)
\* the tree with every grammar's groups folded: one start, then one define per name
RECURSIVE Folded(_)
Folded(t) ==
  LET cs == [i \in DOMAIN t.children |-> Folded(t.children[i])]
      ns == NamesInOrder(cs, <<>>)
  IN  IF t.type # "grammar" THEN [t EXCEPT !.children = cs]
      ELSE [t EXCEPT !.children =
              <<GroupValue(SelectSeq(cs, LAMBDA c : c.type = "start"))>>
              \o [i \in DOMAIN ns |->
                    GroupValue(SelectSeq(cs, LAMBDA c : c.type = "define" /\ c.name = ns[i]))]]

\* C15: when the starts and the same-named defines of every grammar agree (at
\* most one member lacks combine, the others share one value),
\* eliminateCombineAttribute ends without error and each group of two or more
\* is replaced by one start or define carrying that combine value, whose
\* pattern is the left fold c(c(p1, p2), p3) of the members' patterns, the
\* member lacking combine first and the others in input order; the grammar's
\* children are then one start followed by one define per name.
C15_CombineFolding ==
  (pc = 4 /\ CombineConsistent(TreeAfter(3))) =>
    /\ err = "none"
    /\ ToTree(heap, Root) = Folded(TreeAfter(3))

\* three starts, the second lacking combine, were folded into one
C15_Witness ==
  /\ pc = 4 /\ err = "none" /\ CombineConsistent(TreeAfter(3))
  /\ Len(SelectSeq(TreeAfter(3).children[1].children, LAMBDA c : c.type = "start")) = 3
  /\ TreeAfter(3).children[1].children[2].combine = NoCombine
  /\ Len(SelectSeq(ToTree(heap, Root).children[1].children, LAMBDA c : c.type = "start")) = 1
  /\ ToTree(heap, Root).children[1].children[1].combine # NoCombine

\* the errors combine raises for a group of starts or of defines of one name
CombineErrors ==
  {"Cannot have multiple " \o e \o " without specifying combine" :
     e \in {"start elements"} \cup {"defines for name " \o n : n \in Names}}
  \cup {"Cannot have multiple ${errorName} with different combine values"}
\* every grammar of the tree has a start
RECURSIVE HasStarts(_)
HasStarts(t) ==
  /\ t.type = "grammar" => \E i \in DOMAIN t.children : t.children[i].type = "start"
  /\ \A i \in DOMAIN t.children : HasStarts(t.children[i])

\* C16: eliminateCombineAttribute raises an error whenever some group of two or
\* more starts, or defines of one name, holds two or more members without
\* combine or two members with different combine values, in whatever order the
\* members come.
C16_CombineErrors ==
  (pc = 4 /\ HasStarts(TreeAfter(3)) /\ ~CombineConsistent(TreeAfter(3))) =>
    err \in CombineErrors

\* three starts: choice, then two without combine
C16_Witness ==
  /\ pc = 4 /\ err = "Cannot have multiple start elements without specifying combine"
  /\ Len(TreeAfter(3).children[1].children) >= 3
  /\ TreeAfter(3).children[1].children[1].type = "start"
  /\ TreeAfter(3).children[1].children[1].combine = "choice"
  /\ TreeAfter(3).children[1].children[2].type = "start"
  /\ TreeAfter(3).children[1].children[2].combine = NoCombine
  /\ TreeAfter(3).children[1].children[3].type = "start"
  /\ TreeAfter(3).children[1].children[3].combine = NoCombine

\* C17: simplifyRngAst on grammar(start(optional(ref("a"))),
\* define("a", elementNamed("p"))) returns a single grammar whose start holds
\* choice(empty, ref("elem__1")) and whose one define, elem__1, holds
\* element(name("p"), empty).
C17_OptionalRefScenario ==
  (input = OptionalRefGrammar /\ Done) =>
    /\ err = "none"
    /\ ToTree(heap, Root)
         = root(grammar(start(choice(<<empty, ref("elem__1")>>)),
                        <<define("elem__1", <<elem(name("p"), <<>>)>>)>>))

-----------------------------------------------------------------------------
(* The specification of a call of the simple-form checker *)

\* what stands where an element's or attribute's name class belongs
NameClassLike ==
  {name("p"), Leaf("anyName"),
   Node("nameChoice", "", NoCombine, <<name("p"), name("q")>>),
   Node("nameChoice", "", NoCombine, <<name("p")>>),
   text, empty}
CheckedLeaves == {empty, text, notAllowed, ref("a"), Leaf("data"), elemNamed("p", <<>>)}
CheckedPatterns ==
  CheckedLeaves
  \cup {Node("attribute", "", NoCombine, <<nc, text>>) : nc \in NameClassLike}
  \cup {Kind(k, <<x>>) : k \in {"oneOrMore", "optional", "group"}, x \in CheckedLeaves}
  \cup {Kind(k, <<x, y>>) : k \in {"choice", "group", "interleave"},
                            x \in {empty, text, notAllowed}, y \in {empty, text, ref("a")}}
  \cup {grammar(start(text), <<>>)}
CheckedTrees ==
  {root(grammar(start(p), <<define("a", <<Node("element", "", NoCombine, <<nc, q>>)>>)>>)) :
     p \in CheckedPatterns, nc \in NameClassLike, q \in {empty, notAllowed, text}}
  \cup {root(grammar(start(text), <<define("a", cs)>>)) :
          cs \in {<<>>, <<text>>, <<elem(name("p"), <<>>), elem(name("q"), <<>>)>>,
                  <<elem(name("p"), <<text, text>>)>>, <<Node("element", "", NoCombine, <<name("p")>>)>>}}
  \cup {root(text), Node("root", "", NoCombine, <<>>),
        root(Node("grammar", "", NoCombine, <<>>)),
        root(Node("grammar", "", NoCombine, <<define("a", <<elem(name("p"), <<>>)>>), start(text)>>)),
        root(Node("grammar", "", NoCombine, <<start(text), start(text)>>)),
        Node("root", "", NoCombine, <<grammar(start(text), <<>>), grammar(start(text), <<>>)>>)}

InitS ==
  /\ input \in CheckedTrees
  /\ heap = Load(input)
  /\ pc = 0 /\ err = "none"
  /\ doc = <<>> /\ patterns = <<>> /\ ann = <<>>
  /\ job = NoJob /\ phase = "ready" /\ result = Idle

\* S.isRoot(tree): the tree is read, never written
IsRoot ==
  /\ phase = "ready"
  /\ result' = isRoot(heap)
  /\ job' = [op |-> "isRoot", name |-> ""]
  /\ phase' = "done"
  /\ UNCHANGED <<heap, pc, err, input, doc, patterns, ann>>

NextS == IsRoot

SpecS == InitS /\ [][NextS]_vars

\* the simple-form invariants of the data model, on a value tree below a
\* parent of kind parent
IsNameClassNode(t) ==
  \/ t.type \in {"name", "anyName"}
  \/ /\ t.type = "nameChoice" /\ Len(t.children) = 2
     /\ \A i \in DOMAIN t.children : t.children[i].type \in {"name", "anyName"}
NonEmptyPatternTypes ==
  {"text", "data", "value", "ref", "attribute", "oneOrMore", "choice", "group", "interleave"}
IsPatternNode(t) == t.type \in NonEmptyPatternTypes \cup {"empty"}
RECURSIVE SimpleForm(_, _)
SimpleForm(t, parent) ==
  LET cs == t.children
      n  == Len(cs)
  IN  /\ t.type \notin {"optional", "zeroOrMore", "mixed", "parentRef", "elementNamed",
                        "attributeNamed"}
      /\ t.type = "root" => n = 1 /\ cs[1].type = "grammar"
      /\ t.type = "grammar" =>
           /\ parent = "root" /\ n >= 1 /\ cs[1].type = "start"
           /\ \A i \in 2..n : cs[i].type = "define"
      /\ t.type = "start" => n = 1 /\ (IsPatternNode(cs[1]) \/ cs[1].type = "notAllowed")
      /\ t.type = "define" => n = 1 /\ cs[1].type = "element"
      /\ t.type = "element" =>
           /\ parent = "define" /\ n = 2 /\ IsNameClassNode(cs[1])
           /\ (IsPatternNode(cs[2]) \/ cs[2].type = "notAllowed")
      /\ t.type = "attribute" => n = 2 /\ IsNameClassNode(cs[1]) /\ IsPatternNode(cs[2])
      /\ t.type = "oneOrMore" => n = 1 /\ cs[1].type \in NonEmptyPatternTypes
      /\ t.type = "choice" =>
           n = 2 /\ IsPatternNode(cs[1]) /\ cs[2].type \in NonEmptyPatternTypes
      /\ t.type \in {"group", "interleave"} =>
           n = 2 /\ \A i \in 1..n : cs[i].type \in NonEmptyPatternTypes
      /\ t.type = "notAllowed" => parent \in {"start", "element"}
      /\ \A i \in 1..n :
           (t.type \in {"element", "attribute"} /\ i = 1) \/ SimpleForm(cs[i], t.type)

\* C18: isRoot leaves the tree as it was and returns true exactly when the tree
\* satisfies every simple-form invariant: the root's one child is a grammar of
\* a start followed by defines; every define holds one element; every element
\* and attribute holds a name class and a pattern; oneOrMore, choice, group and
\* interleave have their arities and non-empty children; notAllowed is the
\* child of start or element only; no full-form-only node or nested grammar.
C18_SimpleFormChecker ==
  (phase = "done" /\ job.op = "isRoot") =>
    /\ ToTree(heap, Root) = input
    /\ result <=> SimpleForm(input, "none")

\* the heap the first k statements of the call leave
HeapAfter(k) == RunStatements(St(Load(input), "none", <<>>), 1, k).heap

\* the define objects named n among the children of grammar g
LookupIn(h, g, n) ==
  {h[g].children[i] : i \in {j \in DOMAIN h[g].children :
                               h[h[g].children[j]].type = "define"
                               /\ h[h[g].children[j]].name = n}}
\* what every ref and parentRef below id denotes: pairs of the reference and
\* the defines of its name in the nearest enclosing grammar (for a parentRef,
\* in the grammar around that one); scopes holds the enclosing grammars
RECURSIVE Bindings(_, _, _)
Bindings(h, id, scopes) ==
  LET sc == IF h[id].type = "grammar" THEN Append(scopes, id) ELSE scopes
  IN  (IF h[id].type = "ref" /\ Len(sc) >= 1
         THEN {<<id, LookupIn(h, sc[Len(sc)], h[id].name)>>}
       ELSE IF h[id].type = "parentRef" /\ Len(sc) >= 2
         THEN {<<id, LookupIn(h, sc[Len(sc) - 1], h[id].name)>>}
       ELSE {})
      \cup UNION {Bindings(h, h[id].children[i], sc) : i \in DOMAIN h[id].children}

\* C19: ensureOnlyOneGrammarElement ends without error, leaves no parentRef, and
\* every ref and parentRef of the tree it started from is a ref whose name,
\* looked up among the top grammar's defines, denotes the define object it
\* denoted before (a ref whose own grammar's define kept its name keeps its
\* name, whatever was renamed elsewhere).
C19_ReferenceBinding ==
  (InSpec(input) /\ pc = 5) =>
    /\ err = "none"
    /\ \A id \in Reach(heap, Root) : heap[id].type # "parentRef"
    /\ \A b \in Bindings(HeapAfter(4), Root, <<>>) :
         /\ heap[b[1]].type = "ref"
         /\ LookupIn(heap, heap[Root].children[1], heap[b[1]].name) = b[2]

\* the names of the refs below id (and of the nodes ids), in document order,
\* added to acc where new
RECURSIVE RefsBelow(_, _, _), RefsBelowAll(_, _, _)
RefsBelowAll(h, ids, acc) ==
  IF ids = <<>> THEN acc ELSE RefsBelowAll(h, Tail(ids), RefsBelow(h, Head(ids), acc))
RefsBelow(h, id, acc) ==
  RefsBelowAll(h, h[id].children,
               IF h[id].type = "ref" /\ \A i \in DOMAIN acc : acc[i] # h[id].name
                 THEN Append(acc, h[id].name) ELSE acc)
\* the names referenced from the start, directly or through reached defines,
\* in the order they are first met
RECURSIVE FirstVisitOrder(_, _, _)
FirstVisitOrder(h, reached, i) ==
  IF i > Len(reached) THEN reached
  ELSE FirstVisitOrder(h, RefsBelowAll(h, SelectSeq(TopDefines(h),
                                                    LAMBDA d : h[d].name = reached[i]), reached),
                       i + 1)
ReachedDefines(h) ==
  LET order == FirstVisitOrder(h, RefsBelow(h, TopChildren(h)[1], <<>>), 1)
  IN  [i \in DOMAIN order |-> SelectSeq(TopDefines(h), LAMBDA d : h[d].name = order[i])[1]]

\* C20: removeUnreachableDefines, applied to the tree the first five passes
\* leave, ends without error and leaves as the top grammar's children the start
\* followed by exactly the defines referenced from the start, directly or
\* through other reached defines, each once and in the order first met.
C20_Reachability ==
  (InSpec(input) /\ pc = 5 /\ err = "none" /\ DistinctDefineNames(heap)) =>
    /\ removeUnreachableDefines(St(heap, "none", <<>>)).err = "none"
    /\ TopChildren(removeUnreachableDefines(St(heap, "none", <<>>)).heap)
         = <<TopChildren(heap)[1]>> \o ReachedDefines(heap)

\* the tree with every elementNamed(N, P*) replaced by element(name(N), P*) and
\* every attributeNamed(N, children) by attribute(name(N), children)
RECURSIVE NamesMoved(_)
NamesMoved(t) ==
  LET cs == [i \in DOMAIN t.children |-> NamesMoved(t.children[i])]
  IN  IF t.type = "elementNamed" THEN Node("element", "", NoCombine, <<name(t.name)>> \o cs)
      ELSE IF t.type = "attributeNamed"
        THEN Node("attribute", "", NoCombine, <<name(t.name)>> \o cs)
      ELSE [t EXCEPT !.children = cs]
\* the kinds of the nodes of a value tree
RECURSIVE TypesIn(_)
TypesIn(t) == {t.type} \cup UNION {TypesIn(t.children[i]) : i \in DOMAIN t.children}

\* C22: after moveNameAttributeToChild no elementNamed or attributeNamed remains
\* at any depth: each elementNamed(N, P*) is element(name(N), P*) and each
\* attributeNamed(N, children) is attribute(name(N), children), the children
\* being the same in the same order.
C22_NamesMoved ==
  pc = 1 =>
    /\ err = "none"
    /\ TypesIn(ToTree(heap, Root)) \cap {"elementNamed", "attributeNamed"} = {}
    /\ ToTree(heap, Root) = NamesMoved(input)

\* the arities controlChildren establishes, at every depth of a value tree
RECURSIVE AritiesControlled(_)
AritiesControlled(t) ==
  /\ t.type \in {"choice", "group", "interleave", "element", "attribute"} => Len(t.children) = 2
  /\ t.type \in {"define", "oneOrMore", "zeroOrMore", "optional", "mixed"} => Len(t.children) = 1
  /\ \A i \in DOMAIN t.children : AritiesControlled(t.children[i])
\* the left-nested fold of cs under constructor k
RECURSIVE FoldPairs(_, _, _)
FoldPairs(k, acc, rest) ==
  IF rest = <<>> THEN acc
  ELSE FoldPairs(k, Node(k, "", NoCombine, <<acc, Head(rest)>>), Tail(rest))
\* the tree with every node brought to its arity
RECURSIVE Controlled(_)
Controlled(t) ==
  LET cs == [i \in DOMAIN t.children |-> Controlled(t.children[i])]
  IN  CASE t.type \in {"choice", "group", "interleave"} /\ Len(cs) = 1 -> cs[1]
        [] t.type \in {"choice", "group", "interleave"} /\ Len(cs) > 2 ->
             FoldPairs(t.type, cs[1], Tail(cs))
        [] t.type \in {"define", "oneOrMore", "zeroOrMore", "optional", "mixed"}
             /\ Len(cs) > 1 ->
             [t EXCEPT !.children = <<FoldPairs("group", cs[1], Tail(cs))>>]
        [] t.type = "element" /\ Len(cs) > 2 ->
             [t EXCEPT !.children = <<cs[1], FoldPairs("group", cs[2], Tail(Tail(cs)))>>]
        [] t.type = "attribute" /\ Len(cs) = 1 -> [t EXCEPT !.children = <<cs[1], text>>]
        [] OTHER -> [t EXCEPT !.children = cs]

\* C23: after controlChildren every choice, group and interleave, at every
\* depth, has exactly two children (one with a single child is replaced by that
\* child, one with more than two by the left-nested fold), every define,
\* oneOrMore, zeroOrMore, optional and mixed has one child, every element and
\* attribute two; nodes directly inside a spliced or folded node included.
C23_AritiesControlled ==
  pc = 2 =>
    /\ err = "none"
    /\ AritiesControlled(ToTree(heap, Root))
    /\ ToTree(heap, Root) = Controlled(TreeAfter(1))

\* the tree with mixed(C) replaced by interleave(C, text), optional(C) by
\* choice(C, empty) and zeroOrMore(C) by choice(oneOrMore(C), empty)
RECURSIVE MixedReplaced(_)
MixedReplaced(t) ==
  LET cs == [i \in DOMAIN t.children |-> MixedReplaced(t.children[i])]
  IN  CASE t.type = "mixed" -> interleave(<<cs[1], text>>)
        [] t.type = "optional" -> choice(<<cs[1], empty>>)
        [] t.type = "zeroOrMore" -> choice(<<oneOrMore(<<cs[1]>>), empty>>)
        [] OTHER -> [t EXCEPT !.children = cs]

\* C24: after replaceMixedOptionalAndZeroOrMore, run on what controlChildren
\* left, no mixed, optional or zeroOrMore remains at any depth, those nested
\* directly in one another included: mixed(C) is interleave(C, text),
\* optional(C) is choice(C, empty), zeroOrMore(C) is choice(oneOrMore(C), empty).
C24_MixedReplaced ==
  pc = 3 =>
    /\ err = "none"
    /\ TypesIn(ToTree(heap, Root)) \cap {"mixed", "optional", "zeroOrMore"} = {}
    /\ ToTree(heap, Root) = MixedReplaced(TreeAfter(2))

\* the nodes of kind type below the root of heap h
NodesOfType(h, type) == {id \in Reach(h, Root) : h[id].type = type}

\* C25: when ensureOnlyOneGrammarElement ends without error the tree holds
\* exactly one grammar, the root's only child; every define of the tree the
\* pass started from, whatever grammar it belonged to, is a child of that
\* grammar exactly once; every nested grammar, one that is the start pattern
\* of another nested grammar included, has given way to the pattern of its start.
C25_SingleGrammar ==
  (InSpec(input) /\ pc = 5 /\ err = "none") =>
    /\ Len(heap[Root].children) = 1
    /\ NodesOfType(heap, "grammar") = {heap[Root].children[1]}
    /\ \A d \in NodesOfType(HeapAfter(4), "define") :
         Cardinality({i \in DOMAIN TopChildren(heap) : TopChildren(heap)[i] = d}) = 1
    /\ NodesOfType(heap, "define") = NodesOfType(HeapAfter(4), "define")

\* every node object below the root is the child of one parent, at one position
StrictHierarchy(h) ==
  \A id \in Reach(h, Root) :
    Cardinality({pi \in UNION {{<<p, i>> : i \in DOMAIN h[p].children} : p \in Reach(h, Root)} :
                   h[pi[1]].children[pi[2]] = id}) <= 1

\* C21: after every pass of simplifyRngAst that ends without error the tree is
\* a strict hierarchy: no node object is the child of two parents or occurs
\* twice among children.
C21_StrictOwnership ==
  (InSpec(input) /\ pc >= 1 /\ err = "none") => StrictHierarchy(heap)


-----------------------------------------------------------------------------
(* A pass on its own: each pass of simplifyRngAst (src/src/rngast-validate.ts *)
(* 452-763) is a function of the tree, called here on trees of the shape its  *)
(* predecessors leave                                                         *)

\* patterns in which every group, interleave and choice has two children,
\* every oneOrMore one and every attribute and element a name class and a
\* pattern, around empty, notAllowed and text
TightLeaves == {empty, notAllowed, text}
TightOne ==
  TightLeaves
  \cup {Node(k, "", NoCombine, <<a, b>>) : k \in Nary, a \in TightLeaves, b \in TightLeaves}
  \cup {oneOrMore(<<a>>) : a \in TightLeaves}
  \cup {attr(name("k"), a) : a \in TightLeaves}
TightTwo ==
  TightOne
  \cup {Node(k, "", NoCombine, <<a, b>>) : k \in Nary, a \in TightOne, b \in TightLeaves}
  \cup {Node(k, "", NoCombine, <<b, a>>) : k \in Nary, a \in TightOne, b \in TightLeaves}
  \cup {oneOrMore(<<a>>) : a \in TightOne}
  \cup {attr(name("k"), a) : a \in TightOne}
  \cup {elem(name("p"), <<a>>) : a \in TightOne}
TightPats ==
  TightTwo \cup {group(<<a, text>>) : a \in TightTwo} \cup {choice(<<text, a>>) : a \in TightTwo}
TightGrammars ==
  {root(grammar(start(p), <<define("a", <<elem(name("q"), <<text>>)>>)>>)) : p \in TightPats}

\* one grammar with elements below its start and its defines, some of the
\* defines named as the lifting names its own
ElemQ == elem(name("q"), <<text>>)
ElemP == elem(name("p"), <<ElemQ>>)
ElementGrammars ==
  {root(grammar(start(s), ds)) :
     s \in {ElemQ, ElemP, group(<<ElemQ, ElemP>>), ref("a"), group(<<ref("elem__1"), ElemQ>>)},
     ds \in {<<define("a", <<ElemQ>>)>>, <<define("a", <<ElemP>>)>>,
             <<define("a", <<group(<<ElemQ, text>>)>>)>>,
             <<define("a", <<ElemQ>>), define("elem__1", <<ElemQ>>)>>,
             <<define("a", <<ElemP>>), define("elem__2", <<ElemQ>>)>>}}

\* one constructor inside another, each with a single child
UnaryNests ==
  {root(grammar(start(Kind(k, <<Kind(l, <<x>>)>>)), <<define("a", <<ElemQ>>)>>)) :
     k \in Unary \cup Nary, l \in Unary \cup Nary, x \in {empty, text}}

PassInputs == TightGrammars \cup ElementGrammars \cup UnaryNests \cup PatternGrammars(1)

InitP ==
  /\ input \in PassInputs
  /\ heap = Load(input)
  /\ pc = 0 /\ err = "none"
  /\ doc = <<>> /\ patterns = <<>> /\ ann = <<>>
  /\ job = NoJob /\ phase = "pass" /\ result = Idle

\* pass k of simplifyRngAst called on the tree
ApplyPass ==
  /\ phase = "pass" /\ pc = 0
  /\ \E k \in 1..8 :
       /\ \E st \in {Statement(k, St(heap, "none", <<>>))} :
            /\ heap' = st.heap
            /\ err' = st.err
       /\ job' = [op |-> "pass", name |-> ToString(k)]
  /\ pc' = 1
  /\ UNCHANGED <<input, doc, patterns, ann, phase, result>>

\* the second step of canonicalDefineAndElement called on the tree
CreateDefinesForEachElement ==
  /\ phase = "pass" /\ pc = 0
  /\ \E st \in {createDefinesForEachElement(St(heap, "none", <<>>))} :
       /\ heap' = st.heap
       /\ err' = st.err
  /\ job' = [op |-> "createDefinesForEachElement", name |-> ""]
  /\ pc' = 1
  /\ UNCHANGED <<input, doc, patterns, ann, phase, result>>

NextP == ApplyPass \/ CreateDefinesForEachElement

SpecP == InitP /\ [][NextP]_vars

\* the node that has id among its children, in heap h
ParentsOf(h, id) ==
  {p \in Reach(h, Root) : \E i \in DOMAIN h[p].children : h[p].children[i] = id}
\* the nodes the pass created
Created(h) == {id \in Reach(h, Root) : id > Len(Load(input))}

\* C26: after createDefinesForEachElement, called on a single grammar whose
\* refs resolve, no error is raised, every element is the child of a define of
\* the top grammar, and every ref the pass inserted names exactly one define of
\* the top grammar, a newly appended one holding an element.
C26_ElementLifting ==
  (job.op = "createDefinesForEachElement" /\ input.children[1].type = "grammar"
     /\ InSpec(input)) =>
    /\ err = "none"
    /\ \A e \in NodesOfType(heap, "element") :
         \A p \in ParentsOf(heap, e) :
           heap[p].type = "define" /\ \E i \in DOMAIN TopChildren(heap) : TopChildren(heap)[i] = p
    /\ \A r \in Created(heap) :
         heap[r].type = "ref" =>
           \E d \in Created(heap) :
             /\ LookupIn(heap, heap[Root].children[1], heap[r].name) = {d}
             /\ heap[heap[d].children[1]].type = "element"


\* empty is no child of a group, interleave or oneOrMore and not the second
\* child of a choice, anywhere in value tree t
RECURSIVE EmptyAvoided(_)
EmptyAvoided(t) ==
  /\ t.type \in {"group", "interleave", "oneOrMore"} =>
       \A i \in DOMAIN t.children : t.children[i].type # "empty"
  /\ (t.type = "choice" /\ Len(t.children) >= 2) => t.children[2].type # "empty"
  /\ \A i \in DOMAIN t.children : EmptyAvoided(t.children[i])

\* C27: after avoidEmptyInGroupSpots, called on a tree in which every group,
\* interleave and choice has two children and every oneOrMore one, no error is
\* raised and empty is no child of a group, interleave or oneOrMore and not
\* the second child of a choice.
C27_EmptyAvoided ==
  (job = [op |-> "pass", name |-> "8"] /\ AritiesControlled(input)) =>
    err = "none" /\ EmptyAvoided(ToTree(heap, Root))


\* notAllowed occurs in value tree t only as the child of a start or of an
\* element
RECURSIVE NotAllowedLimited(_)
NotAllowedLimited(t) ==
  /\ t.type \notin {"start", "element"} =>
       \A i \in DOMAIN t.children : t.children[i].type # "notAllowed"
  /\ \A i \in DOMAIN t.children : NotAllowedLimited(t.children[i])

\* a grammar built of the node kinds the first six passes leave
SimpleKinds(t) ==
  /\ t.children[1].type = "grammar"
  /\ TypesIn(t) \subseteq {"root", "grammar", "start", "define", "element", "attribute", "name",
                           "choice", "group", "interleave", "oneOrMore", "ref", "empty",
                           "text", "notAllowed"}

\* C28: after limitLocationsOfNotAllowed, called on a grammar with the arities
\* of pass 2 and the node kinds the passes before it leave, no error is raised and notAllowed occurs only as the child of a
\* start or of an element.
C28_NotAllowedLimited ==
  (job = [op |-> "pass", name |-> "7"] /\ AritiesControlled(input) /\ SimpleKinds(input)) =>
    err = "none" /\ NotAllowedLimited(ToTree(heap, Root))


\* the passes before pass k leave value tree t as it is
Settled(t, k) ==
  /\ RunStatements(St(Load(t), "none", <<>>), 1, k - 1).err = "none"
  /\ ToTree(RunStatements(St(Load(t), "none", <<>>), 1, k - 1).heap, Root) = t

\* C29: when pass k, called on a tree the passes before it leave unchanged,
\* has ended without error, the same pass called on its output ends without
\* error and leaves the tree structurally unchanged.
C29_PassIdempotent ==
  \A k \in 1..8 :
    (job = [op |-> "pass", name |-> ToString(k)] /\ err = "none" /\ Settled(input, k)) =>
      /\ Statement(k, St(heap, "none", <<>>)).err = "none"
      /\ ToTree(Statement(k, St(heap, "none", <<>>)).heap, Root) = ToTree(heap, Root)


\* the names of the attributeNamed patterns in value tree t
RECURSIVE NamedAttrs(_)
NamedAttrs(t) ==
  (IF t.type = "attributeNamed" THEN {t.name} ELSE {})
  \cup UNION {NamedAttrs(t.children[i]) : i \in DOMAIN t.children}
\* the children of the target that are elements named n, and its text children
KidsNamed(n) ==
  {i \in DOMAIN doc[Target].children :
     doc[doc[Target].children[i]].type = "element" /\ doc[doc[Target].children[i]].name = n}
TextKids ==
  {i \in DOMAIN doc[Target].children : doc[doc[Target].children[i]].type = "text"}

\* C30: after validateNode(target, elemNamed(n, ...patterns)) with n the
\* target's name has ended without exception, every attribute of the target
\* that no attributeNamed pattern names is reported on the target exactly once
\* as 'Unexpected attribute: k'; and when the element was built with no
\* patterns, every element child is reported once as 'Unexpected element: n'
\* and every text child once as 'Unexpected text in element'.
C30_LeftoverReported ==
  (NodeDone /\ result.err = "none") =>
    /\ \A i \in DOMAIN doc[Target].attrs :
         doc[Target].attrs[i].name \notin UNION {NamedAttrs(patterns[j]) : j \in DOMAIN patterns}
           => ProbCount(ann[Target], "Unexpected attribute: " \o doc[Target].attrs[i].name) = 1
    /\ patterns = <<>> =>
         /\ \A n \in KidKinds :
              ProbCount(ann[Target], ExpectedUnexpectedElem(n)) = Cardinality(KidsNamed(n))
         /\ ProbCount(ann[Target], ExpectedNoText) = Cardinality(TextKids)

=============================================================================
